---- MODULE Spec2Model ----
(***************************************************************************)
(* Mesh-parameter derivation engine of AmpersandCFD.                       *)
(*                                                                         *)
(* The model follows ampersand/utils/stl_analysis.py (StlAnalysis),        *)
(* ampersand/models/settings.py (BoundingBox, Domain, MeshSettings), the   *)
(* modification service src/services/mod_service.py and the older mutator  *)
(* StlAnalysis.update_settings of src/utils/stl_analysis.py.               *)
(*                                                                         *)
(* Numbers.  Python floats are modelled as exact rationals [n, d] in       *)
(* lowest terms with d > 0; a float division by zero raises                *)
(* ZeroDivisionError, which the model keeps as a failed result             *)
(* [ok |-> FALSE, ...].  Rounding error of IEEE doubles is not modelled.   *)
(* The two irrational steps of calc_y, Re ** (-1/5) and np.sqrt, are       *)
(* roots carried to four or five significant digits (Root5, Sqrt below),   *)
(* and the quotient of logarithms in calc_boundary_layer is counted by     *)
(* repeated division carried to seven significant digits (IntLog);         *)
(* everything else is exact.                                               *)
(*                                                                         *)
(* An operation that raises is modelled statement by statement: what it    *)
(* assigned before raising stays assigned.  Intermediate values are        *)
(* handed on as operator parameters, one operator per group of statements. *)
(***************************************************************************)
EXTENDS Integers, Sequences, FiniteSets, TLC

VARIABLES
    domain,            \* settings.mesh.domain: six bounds and nx, ny, nz
    maxCellSize,       \* settings.mesh.maxCellSize
    locationInMesh,    \* settings.mesh.castellatedMeshControls.locationInMesh
    geometry,          \* settings.mesh.geometry: patch name -> geometry
    addLayersControls, \* settings.mesh.addLayersControls (the fields written)
    refAmount,         \* settings.mesh.refAmount
    onGround,          \* settings.mesh.onGround
    halfModel,         \* settings.mesh.halfModel
    internalFlow,      \* settings.mesh.internalFlow
    fluid,             \* settings.physical_properties.fluid: rho, nu
    u_value,           \* settings.boundary_conditions.velocityInlet.u_value
    last,              \* the last operation, its arguments and its outcome
    ops,               \* the number of operations performed on the aggregate
    call               \* the last call of a pure function: arguments, result

vars == <<domain, maxCellSize, locationInMesh, geometry, addLayersControls,
          refAmount, onGround, halfModel, internalFlow, fluid, u_value,
          last, ops, call>>

-----------------------------------------------------------------------------
(* Bounds of the model.                                                    *)

\* operations performed on one aggregate
MaxOps == 2
\* coordinates of the boxes the pure functions are applied to: 0..MaxCoord
MaxCoord == 2
\* refinement levels handed to get_refinement_boxes: 0..MaxRefLevel
MaxRefLevel == 6

-----------------------------------------------------------------------------
(* Exact rational arithmetic standing for Python floats.                   *)

Abs(i) == IF i < 0 THEN -i ELSE i

RECURSIVE GCD(_, _)
GCD(a, b) == IF b = 0 THEN a ELSE GCD(b, a % b)

\* the rational n/d in lowest terms, d > 0 (d # 0)
Rat(n, d) ==
    LET g == GCD(Abs(n), Abs(d))
        s == IF d < 0 THEN -1 ELSE 1
    IN  [n |-> s * (n \div g), d |-> s * (d \div g)]

Num(i) == [n |-> i, d |-> 1]
Zero == Num(0)

\* a + b and a - b over the least common denominator, g = GCD(a.d, b.d)
AddOver(a, b, g) == Rat(a.n * (b.d \div g) + b.n * (a.d \div g), (a.d \div g) * b.d)
SubOver(a, b, g) == Rat(a.n * (b.d \div g) - b.n * (a.d \div g), (a.d \div g) * b.d)
Add(a, b) == AddOver(a, b, GCD(a.d, b.d))
Sub(a, b) == SubOver(a, b, GCD(a.d, b.d))
Mul(a, b) == Rat(a.n * b.n, a.d * b.d)
\* a / b for b # 0
Quot(a, b) == Rat(a.n * b.d, a.d * b.n)
Neg(a) == [n |-> -a.n, d |-> a.d]
Less(a, b) == a.n * b.d < b.n * a.d
Leq(a, b) == a.n * b.d <= b.n * a.d
IsZero(a) == a.n = 0
RMin(a, b) == IF Less(b, a) THEN b ELSE a
RMax(a, b) == IF Less(a, b) THEN b ELSE a
RAbs(a) == [n |-> Abs(a.n), d |-> a.d]
\* math.ceil of a rational: the least integer >= a
Ceil(a) == -((-a.n) \div a.d)
\* int() of a rational: truncation towards zero
Trunc(a) == IF a.n >= 0 THEN a.n \div a.d ELSE -((-a.n) \div a.d)

\* results of operations that may raise
Ok(v) == [ok |-> TRUE, val |-> v]
Raise(e) == [ok |-> FALSE, err |-> e]

-----------------------------------------------------------------------------
(* BoundingBox and Domain (models/settings.py).                            *)

BoundingBox(minx, maxx, miny, maxy, minz, maxz) ==
    [minx |-> minx, maxx |-> maxx, miny |-> miny, maxy |-> maxy,
     minz |-> minz, maxz |-> maxz]

\* a box with integer bounds
IntBox(minx, maxx, miny, maxy, minz, maxz) ==
    BoundingBox(Num(minx), Num(maxx), Num(miny), Num(maxy), Num(minz), Num(maxz))

size(b) == <<Sub(b.maxx, b.minx), Sub(b.maxy, b.miny), Sub(b.maxz, b.minz)>>

\* max() and min() of the three entries of a size
Max3(s) == RMax(RMax(s[1], s[2]), s[3])

Min3(s) == RMin(RMin(s[1], s[2]), s[3])

max_length(b) == Max3(size(b))

min_length(b) == Min3(size(b))

\* a lower x offset applied with the wrong sign
scale_dimensions_SignSlip(b, xmin_offset, xmax_offset, ymin_offset, ymax_offset, zmin_offset, zmax_offset) ==
    BoundingBox(Sub(b.minx, xmin_offset), Add(b.maxx, xmax_offset),
                Add(b.miny, ymin_offset), Add(b.maxy, ymax_offset),
                Add(b.minz, zmin_offset), Add(b.maxz, zmax_offset))

scale_dimensions(b, xmin_offset, xmax_offset, ymin_offset, ymax_offset, zmin_offset, zmax_offset) ==
    BoundingBox(Add(b.minx, xmin_offset), Add(b.maxx, xmax_offset),
                Add(b.miny, ymin_offset), Add(b.maxy, ymax_offset),
                Add(b.minz, zmin_offset), Add(b.maxz, zmax_offset))

\* an update that takes the lower x bound of its argument as it is
BoundingBox_update_TakesMinx(current, sz) ==
    BoundingBox(sz.minx, RMax(sz.maxx, current.maxx),
                RMin(sz.miny, current.miny), RMax(sz.maxy, current.maxy),
                RMin(sz.minz, current.minz), RMax(sz.maxz, current.maxz))

\* BoundingBox.update(current, size): the componentwise envelope
BoundingBox_update(current, sz) ==
    BoundingBox(RMin(sz.minx, current.minx), RMax(sz.maxx, current.maxx),
                RMin(sz.miny, current.miny), RMax(sz.maxy, current.maxy),
                RMin(sz.minz, current.minz), RMax(sz.maxz, current.maxz))

\* the bounding-box part of a Domain (Domain.bbox)
bbox(d) == BoundingBox(d.minx, d.maxx, d.miny, d.maxy, d.minz, d.maxz)

\* a constructor that stores the y count as the x count
from_bbox_SwapsCounts(b, nx, ny, nz) ==
    [minx |-> b.minx, maxx |-> b.maxx, miny |-> b.miny, maxy |-> b.maxy,
     minz |-> b.minz, maxz |-> b.maxz, nx |-> ny, ny |-> nx, nz |-> nz]

from_bbox(b, nx, ny, nz) ==
    [minx |-> b.minx, maxx |-> b.maxx, miny |-> b.miny, maxy |-> b.maxy,
     minz |-> b.minz, maxz |-> b.maxz, nx |-> nx, ny |-> ny, nz |-> nz]

\* class Domain: the field defaults
DefaultDomain == from_bbox(IntBox(-3, 5, -1, 1, 0, 2), 50, 20, 20)

IMax(a, b) == IF a < b THEN b ELSE a

\* an update that takes the new box and drops the current one
Domain_update_Replaces(current, new_domain, isDomain) ==
    from_bbox(new_domain,
              IMax(IF isDomain THEN new_domain.nx ELSE 0, current.nx),
              IMax(IF isDomain THEN new_domain.ny ELSE 0, current.ny),
              IMax(IF isDomain THEN new_domain.nz ELSE 0, current.nz))

\* Domain.update(current, new_domain) with nx = ny = nz = None.  isDomain is
\* isinstance(new_domain, Domain): a plain BoundingBox contributes 0 cells.
Domain_update(current, new_domain, isDomain) ==
    LET e == BoundingBox_update(current, new_domain)
    IN  from_bbox(e,
                  IMax(IF isDomain THEN new_domain.nx ELSE 0, current.nx),
                  IMax(IF isDomain THEN new_domain.ny ELSE 0, current.ny),
                  IMax(IF isDomain THEN new_domain.nz ELSE 0, current.nz))

-----------------------------------------------------------------------------
(* StlAnalysis: domain sizing (utils/stl_analysis.py).                     *)

\* a first assignment that extends the box downstream as far as upstream
scaled_bbox_SameBothWays(stl_bbox, size_factor, max_size_factor, internal_flow) ==
    IF internal_flow
    THEN scale_dimensions(stl_bbox,
                          Mul(Rat(-1, 10), size_factor), Mul(Rat(1, 10), size_factor),
                          Mul(Rat(-1, 10), size_factor), Mul(Rat(1, 10), size_factor),
                          Mul(Rat(-1, 10), size_factor), Mul(Rat(1, 10), size_factor))
    ELSE scale_dimensions(stl_bbox,
                          Mul(Num(-3), max_size_factor), Mul(Num(3), max_size_factor),
                          Mul(Num(-2), max_size_factor), Mul(Num(2), max_size_factor),
                          Mul(Num(-2), max_size_factor), Mul(Num(2), max_size_factor))

\* the first assignment of domain_bbox, max_size_factor being
\* characteristic_length * size_factor
scaled_bbox(stl_bbox, size_factor, max_size_factor, internal_flow) ==
    IF internal_flow
    THEN scale_dimensions(stl_bbox,
                          Mul(Rat(-1, 10), size_factor), Mul(Rat(1, 10), size_factor),
                          Mul(Rat(-1, 10), size_factor), Mul(Rat(1, 10), size_factor),
                          Mul(Rat(-1, 10), size_factor), Mul(Rat(1, 10), size_factor))
    ELSE scale_dimensions(stl_bbox,
                          Mul(Num(-3), max_size_factor), Mul(Num(9), max_size_factor),
                          Mul(Num(-2), max_size_factor), Mul(Num(2), max_size_factor),
                          Mul(Num(-2), max_size_factor), Mul(Num(2), max_size_factor))

\* if on_ground: the floor is the bottom of the surface
ground_bbox(domain_bbox, stl_bbox, max_size_factor, on_ground) ==
    IF on_ground
    THEN [domain_bbox EXCEPT !.minz = stl_bbox.minz,
                             !.maxz = Add(stl_bbox.maxz, Mul(Num(4), max_size_factor))]
    ELSE domain_bbox

\* a halving that takes half of maxy instead of the middle of the domain
half_model_bbox_HalvesMaxy(domain_bbox, is_half_model) ==
    IF is_half_model
    THEN [domain_bbox EXCEPT !.maxy = Quot(domain_bbox.maxy, Num(2))]
    ELSE domain_bbox

\* if is_half_model: the max-y face moves to the middle of the domain
half_model_bbox(domain_bbox, is_half_model) ==
    IF is_half_model
    THEN [domain_bbox EXCEPT
             !.maxy = Quot(Add(domain_bbox.maxy, domain_bbox.miny), Num(2))]
    ELSE domain_bbox

\* calc_domain_bbox after its first two lines
domain_bbox_of(stl_bbox, size_factor, max_size_factor, on_ground, internal_flow, is_half_model) ==
    half_model_bbox(
        ground_bbox(scaled_bbox(stl_bbox, size_factor, max_size_factor, internal_flow),
                    stl_bbox, max_size_factor, on_ground),
        is_half_model)

calc_domain_bbox(stl_bbox, size_factor, on_ground, internal_flow, is_half_model) ==
    domain_bbox_of(stl_bbox, size_factor, Mul(max_length(stl_bbox), size_factor),
                   on_ground, internal_flow, is_half_model)

\* a table whose medium external divisor is below the coarse one
Divisor_MediumBelowCoarse(refinement_amount, branch) ==
    CASE refinement_amount = "coarse" ->
             (CASE branch = "slender" -> 50 [] branch = "internal" -> 8 [] OTHER -> 3)
      [] refinement_amount = "medium" ->
             (CASE branch = "slender" -> 70 [] branch = "internal" -> 12 [] OTHER -> 2)
      [] OTHER ->
             (CASE branch = "slender" -> 90 [] branch = "internal" -> 16 [] OTHER -> 7)

\* the divisor of the characteristic length, by branch
\* (slender internal, other internal, external)
Divisor(refinement_amount, branch) ==
    CASE refinement_amount = "coarse" ->
             (CASE branch = "slender" -> 50 [] branch = "internal" -> 8 [] OTHER -> 3)
      [] refinement_amount = "medium" ->
             (CASE branch = "slender" -> 70 [] branch = "internal" -> 12 [] OTHER -> 5)
      [] OTHER ->
             (CASE branch = "slender" -> 90 [] branch = "internal" -> 16 [] OTHER -> 7)

\* a table that takes a length ratio of exactly 10 for slender
cell_size_of_TenIsSlender(refinement_amount, maxl, minl, maxCellSz, internalFlw) ==
    IF internalFlw
    THEN IF IsZero(minl)
         THEN Raise("ZeroDivisionError")
         ELSE IF Leq(Num(10), Quot(maxl, minl))
              THEN Ok(RMin(Quot(maxl, Num(Divisor(refinement_amount, "slender"))),
                           maxCellSz))
              ELSE Ok(RMin(Quot(minl, Num(Divisor(refinement_amount, "internal"))),
                           maxCellSz))
    ELSE Ok(RMin(Quot(minl, Num(Divisor(refinement_amount, "external"))),
                 maxCellSz))

\* the table of calc_background_cell_size, on the two lengths of the box
cell_size_of(refinement_amount, maxl, minl, maxCellSz, internalFlw) ==
    IF internalFlw
    THEN IF IsZero(minl)
         THEN Raise("ZeroDivisionError")
         ELSE IF Less(Num(10), Quot(maxl, minl))
              THEN Ok(RMin(Quot(maxl, Num(Divisor(refinement_amount, "slender"))),
                           maxCellSz))
              ELSE Ok(RMin(Quot(minl, Num(Divisor(refinement_amount, "internal"))),
                           maxCellSz))
    ELSE Ok(RMin(Quot(minl, Num(Divisor(refinement_amount, "external"))),
                 maxCellSz))

\* raises ZeroDivisionError on max_length/min_length when min_length = 0
calc_background_cell_size(refinement_amount, stl_bbox, maxCellSz, internalFlw) ==
    cell_size_of(refinement_amount, max_length(stl_bbox), min_length(stl_bbox),
                 maxCellSz, internalFlw)

\* the ceiling left as it is
EvenCeil_NoRounding(a) == Ceil(a)

\* int(math.ceil(n)), then + 1 if odd
EvenCeil(a) == LET n == Ceil(a) IN IF n % 2 = 1 THEN n + 1 ELSE n

\* counts taken from the x extent on every axis
calc_nx_ny_nz_FromX(domain_bbox, target_cell_size) ==
    IF IsZero(target_cell_size)
    THEN Raise("ZeroDivisionError")
    ELSE Ok(<<EvenCeil(Quot(Sub(domain_bbox.maxx, domain_bbox.minx), target_cell_size)),
              EvenCeil(Quot(Sub(domain_bbox.maxx, domain_bbox.minx), target_cell_size)),
              EvenCeil(Quot(Sub(domain_bbox.maxx, domain_bbox.minx), target_cell_size))>>)

\* raises ZeroDivisionError when target_cell_size = 0
calc_nx_ny_nz(domain_bbox, target_cell_size) ==
    IF IsZero(target_cell_size)
    THEN Raise("ZeroDivisionError")
    ELSE Ok(<<EvenCeil(Quot(Sub(domain_bbox.maxx, domain_bbox.minx), target_cell_size)),
              EvenCeil(Quot(Sub(domain_bbox.maxy, domain_bbox.miny), target_cell_size)),
              EvenCeil(Quot(Sub(domain_bbox.maxz, domain_bbox.minz), target_cell_size))>>)

\* calc_domain(stl_bbox, settings, max_cell_size, size_factor); the regime
\* flags and the refinement amount are the fields of settings.mesh it reads
\* the last line of calc_domain
domain_with_counts(domain_size, n) ==
    IF ~n.ok THEN n
    ELSE Ok(from_bbox(domain_size, n.val[1], n.val[2], n.val[3]))

\* calc_domain once the box and the cell size are computed
domain_of(domain_size, background_cell_size) ==
    IF ~background_cell_size.ok
    THEN background_cell_size
    ELSE domain_with_counts(domain_size,
                            calc_nx_ny_nz(domain_size, background_cell_size.val))

\* max_cell_size, replaced by a quarter of the length when below 0.001
cell_size_cap(stl_bbox, max_cell_size) ==
    IF Less(max_cell_size, Rat(1, 1000))
    THEN Quot(max_length(stl_bbox), Num(4))
    ELSE max_cell_size

calc_domain(stl_bbox, refAmt, on_ground, internal_flow, is_half_model, max_cell_size, size_factor) ==
    domain_of(calc_domain_bbox(stl_bbox, size_factor, on_ground, internal_flow,
                               is_half_model),
              calc_background_cell_size(refAmt, stl_bbox,
                                        cell_size_cap(stl_bbox, max_cell_size),
                                        internal_flow))

-----------------------------------------------------------------------------
(* StlAnalysis: refinement regions.                                        *)

\* the offsets are multiples of the three lengths of the surface box
refinement_box_of(stl_bbox, s) ==
    scale_dimensions(stl_bbox, Mul(Rat(-7, 10), s[1]), Mul(Num(15), s[1]),
                     Mul(Num(-1), s[2]), Mul(Num(1), s[2]),
                     Mul(Num(-1), s[3]), Mul(Num(1), s[3]))

get_refinement_box(stl_bbox) == refinement_box_of(stl_bbox, size(stl_bbox))

refinement_box_close_of(stl_bbox, s) ==
    scale_dimensions(stl_bbox, Mul(Rat(-2, 10), s[1]), Mul(Num(3), s[1]),
                     Mul(Rat(-45, 100), s[2]), Mul(Rat(45, 100), s[2]),
                     Mul(Rat(-45, 100), s[3]), Mul(Rat(45, 100), s[3]))

get_refinement_box_close(stl_bbox) ==
    refinement_box_close_of(stl_bbox, size(stl_bbox))

SearchableBoxGeometry(box, refineMax) ==
    [class |-> "SearchableBoxGeometry", type |-> "searchableBox",
     bbox |-> box, refineMax |-> refineMax]

\* both boxes at the same level
get_refinement_boxes_SameLevel(stl_bbox, boxName, ref_level, is_internal_flow) ==
    IF is_internal_flow
    THEN <<>>
    ELSE ("fineBox" :> SearchableBoxGeometry(get_refinement_box_close(stl_bbox), ref_level))
         @@ (boxName :> SearchableBoxGeometry(get_refinement_box(stl_bbox), ref_level))

\* the dict literal {boxName: ..., "fineBox": ...}: a later key replaces an
\* equal earlier one
get_refinement_boxes(stl_bbox, boxName, ref_level, is_internal_flow) ==
    IF is_internal_flow
    THEN <<>>
    ELSE ("fineBox" :> SearchableBoxGeometry(get_refinement_box_close(stl_bbox), ref_level))
         @@ (boxName :> SearchableBoxGeometry(get_refinement_box(stl_bbox), ref_level - 1))

\* mesh_domain is mesh_settings.domain
\* the slab of half-thickness z_delta about the floor z
ground_slab(z, z_delta, refLevel) ==
    SearchableBoxGeometry(
        BoundingBox(Num(-1000), Num(1000), Num(-1000), Num(1000),
                    Sub(z, z_delta), Add(z, z_delta)),
        refLevel)

get_ground_refinement_box(mesh_domain, stl_bbox, refLevel) ==
    ground_slab(mesh_domain.minz,
                Mul(Rat(2, 10), Sub(stl_bbox.maxz, stl_bbox.minz)), refLevel)

-----------------------------------------------------------------------------
(* StlAnalysis: boundary layer.                                            *)

\* floor(q * b^j) for q = t + r/d >= 0 at j = 0, scaled up by the base b
\* until it exceeds top or j reaches jmax (b * top and b * d machine integers)
RECURSIVE ScaleUp(_, _, _, _, _, _, _)
ScaleUp(t, r, d, b, top, j, jmax) ==
    IF t > top \/ j = jmax THEN [m |-> t, j |-> j]
    ELSE ScaleUp(t * b + (r * b) \div d, (r * b) % d, d, b, top, j + 1, jmax)

Pow5(a) == a * a * a * a * a

\* the largest a in lo .. hi-1 with a^5 <= x
RECURSIVE Root5Bis(_, _, _)
Root5Bis(x, lo, hi) ==
    IF hi - lo <= 1 THEN lo
    ELSE IF Pow5((lo + hi) \div 2) <= x THEN Root5Bis(x, (lo + hi) \div 2, hi)
    ELSE Root5Bis(x, lo, (lo + hi) \div 2)

\* floor of the fifth root of x, 0 <= x < 2^31
IRoot5(x) == Root5Bis(x, 0, 74)

\* (1 + e) ** (1/5) = 1 + e/5 - 2 e^2/25 + 6 e^3/125 - ..., in units of 10^-5,
\* for e = E * 10^-5 < 0.15
Binomial5(E) ==
    100000 + E \div 5 - (2 * E * E) \div 2500000 + (6 * ((E * E) \div 100000) * E) \div 12500000

\* the fifth root of m / 32^j to four decimals, from a = IRoot5(m), m >= 2^26
Root5Of(a, a5, m, j) ==
    Rat((a * Binomial5((m - a5) \div (a5 \div 100000))) \div (10 * 2^j), 10000)

Root5Scaled(s) == Root5Of(IRoot5(s.m), Pow5(IRoot5(s.m)), s.m, s.j)

\* q ** (1/5) for q > 0 to four decimals (about five significant digits for
\* q >= 1): the floor root of q scaled into 2^26 .. 2^31, then Binomial5
Root5(q) == Root5Scaled(ScaleUp(q.n \div q.d, q.n % q.d, q.d, 32, 67108863, 0, 14))

RECURSIVE SqrtBis(_, _, _)
SqrtBis(x, lo, hi) ==
    IF hi - lo <= 1 THEN lo
    ELSE IF ((lo + hi) \div 2) * ((lo + hi) \div 2) <= x THEN SqrtBis(x, (lo + hi) \div 2, hi)
    ELSE SqrtBis(x, lo, (lo + hi) \div 2)

\* floor of the square root of x, 0 <= x < 2^31
ISqrt(x) == SqrtBis(x, 0, 46341)

SqrtScaled(s) == Rat(ISqrt(s.m), 10^s.j)

\* np.sqrt(q) for q >= 0, rounded down to at most five decimals (three to four
\* significant digits)
Sqrt(q) == SqrtScaled(ScaleUp(q.n \div q.d, q.n % q.d, q.d, 100, 999999, 0, 5))

\* calc_y for Re >= 0.  U_val * L / nu raises ZeroDivisionError when nu = 0,
\* Re ** (-1/5) when Re = 0 and tau / rho when rho = 0.
\* the last lines of calc_y: uStar and the wall distance
wall_distance(nu, rho, tau, target_yPlus) ==
    IF IsZero(rho) THEN Raise("ZeroDivisionError")
    ELSE Ok(Quot(Mul(Num(target_yPlus), nu), Sqrt(Quot(tau, rho))))

\* calc_y with tau = 0.5 * rho * Cf * U_val in place of U_val ** 2
y_of_reynolds_LinearSpeed(nu, rho, U_val, target_yPlus, Re) ==
    IF IsZero(Re) THEN Raise("ZeroDivisionError")
    ELSE wall_distance(nu, rho,
                       Mul(Mul(Mul(Rat(1, 2), rho), Quot(Rat(592, 10000), Root5(Re))),
                           U_val),
                       target_yPlus)

\* calc_y once the Reynolds number is known
y_of_reynolds(nu, rho, U_val, target_yPlus, Re) ==
    IF IsZero(Re) THEN Raise("ZeroDivisionError")
    ELSE wall_distance(nu, rho,
                       Mul(Mul(Mul(Rat(1, 2), rho), Quot(Rat(592, 10000), Root5(Re))),
                           Mul(U_val, U_val)),
                       target_yPlus)

calc_y(nu, rho, L, U_val, target_yPlus) ==
    IF IsZero(nu) THEN Raise("ZeroDivisionError")
    ELSE y_of_reynolds(nu, rho, U_val, target_yPlus, Quot(Mul(U_val, L), nu))

TargetYPlus(refAmt) ==
    CASE refAmt = "coarse" -> 70 [] refAmt = "medium" -> 50 [] OTHER -> 30

\* q with both terms below 10^8, each dropping a decimal digit until they
\* are: about seven significant digits for the quotients below
RECURSIVE Fit(_)
Fit(q) ==
    IF (q.n < 100000000 /\ q.d < 100000000) \/ q.d < 10 THEN q
    ELSE Fit(Rat(q.n \div 10, q.d \div 10))

\* the largest k with er^k <= r * er^k0, counted from k0 (er > 1, r >= 1)
RECURSIVE FloorLogFrom(_, _, _)
FloorLogFrom(r, er, k) ==
    IF Less(r, er) THEN k
    ELSE FloorLogFrom(Fit(Quot(r, er)), er, k + 1)

\* int(np.log(ratio) / np.log(er)) for ratio > 0 and er > 1: the floor of the
\* logarithm when ratio >= 1; a value <= 0 (truncation towards zero) otherwise,
\* which max(1, .) replaces by 1
IntLog(ratio, er) ==
    IF Less(ratio, Num(1)) THEN 0 ELSE FloorLogFrom(Fit(ratio), er, 0)

BoundaryLayer(yPlus, y, first_layer_thickness, final_layer_thickness, nLayers) ==
    [yPlus |-> yPlus, y |-> y, first_layer_thickness |-> first_layer_thickness,
     final_layer_thickness |-> final_layer_thickness, nLayers |-> nLayers]

\* u_max of a BoundaryCondition: max(self.u_value)
u_max(u) == RMax(RMax(u[1], u[2]), u[3])

\* a layer count without the floor of 1
layers_of_ratio_NoFloor(yPlus, y, first_layer_thickness, final_layer_thickness, ratio, expansionRatio) ==
    IF IsZero(ratio)
    THEN Raise("OverflowError: cannot convert float infinity to integer")
    ELSE IF Less(ratio, Zero)
    THEN Raise("ValueError: cannot convert float NaN to integer")
    ELSE Ok(BoundaryLayer(yPlus, y, first_layer_thickness, final_layer_thickness,
                          IntLog(ratio, expansionRatio)))

\* calc_boundary_layer(stl_bbox, settings, target_cell_size); of settings it
\* reads mesh.refAmount, physical_properties.nu/rho, velocityInlet.u_max and
\* mesh.addLayersControls.expansionRatio.  np.log of a ratio of 0 is -inf
\* and of a negative ratio nan; int() rejects both.
\* the layer count and the returned BoundaryLayer
layers_of_ratio(yPlus, y, first_layer_thickness, final_layer_thickness, ratio, expansionRatio) ==
    IF IsZero(ratio)
    THEN Raise("OverflowError: cannot convert float infinity to integer")
    ELSE IF Less(ratio, Zero)
    THEN Raise("ValueError: cannot convert float NaN to integer")
    ELSE Ok(BoundaryLayer(yPlus, y, first_layer_thickness, final_layer_thickness,
                          IMax(1, IntLog(ratio, expansionRatio))))

layers_of_thickness(yPlus, y, first_layer_thickness, final_layer_thickness, expansionRatio) ==
    layers_of_ratio(yPlus, y, first_layer_thickness, final_layer_thickness,
                    Quot(final_layer_thickness, first_layer_thickness),
                    expansionRatio)

\* calc_boundary_layer once calc_y has answered
layers_of_y(target_yPlus, target_y, target_cell_size, expansionRatio) ==
    IF ~target_y.ok THEN target_y
    ELSE layers_of_thickness(target_yPlus, target_y.val,
                             Mul(target_y.val, Num(2)),
                             Mul(target_cell_size, Rat(35, 100)),
                             expansionRatio)

calc_boundary_layer(stl_bbox, refAmt, nu, rho, U_val, expansionRatio, target_cell_size) ==
    layers_of_y(TargetYPlus(refAmt),
                calc_y(nu, rho, max_length(stl_bbox), U_val, TargetYPlus(refAmt)),
                target_cell_size, expansionRatio)

\* calc_boundary_layer for Re < 0.  Re ** (-1/5) is then a complex number
\* (Python floats) or nan (numpy floats).  nan stops at int() with a
\* ValueError; a complex y stops at int() or at the float fields of
\* BoundaryLayer, except where the casts of a numpy complex scalar only warn
\* and keep the real part: y = |y| * exp(i * pi / 10) with the sign of nu,
\* and the layer count from the modulus of final / first.
CosPi10 == Rat(951, 1000)

ComplexRejected == "TypeError or ValueError: Re ** (-1/5) is complex or nan"

real_part_layers(yPlus, y, modulus, final_layer_thickness, expansionRatio) ==
    layers_of_ratio(yPlus, y, Mul(y, Num(2)), final_layer_thickness,
                    Quot(final_layer_thickness, Mul(modulus, Num(2))), expansionRatio)

complex_layers(yPlus, y0, sign, final_layer_thickness, expansionRatio) ==
    IF ~y0.ok THEN {y0}
    ELSE {Raise(ComplexRejected),
          real_part_layers(yPlus, Mul(Mul(Num(sign), CosPi10), y0.val), y0.val,
                           final_layer_thickness, expansionRatio)}

\* the results calc_boundary_layer may give: one, unless Re < 0
calc_boundary_layer_outcomes(stl_bbox, refAmt, nu, rho, U_val, expansionRatio, target_cell_size) ==
    IF ~IsZero(nu) /\ Less(Quot(Mul(U_val, max_length(stl_bbox)), nu), Zero)
    THEN complex_layers(TargetYPlus(refAmt),
                        calc_y(RAbs(nu), rho, RAbs(max_length(stl_bbox)), RAbs(U_val),
                               TargetYPlus(refAmt)),
                        IF Less(nu, Zero) THEN -1 ELSE 1,
                        Mul(target_cell_size, Rat(35, 100)), expansionRatio)
    ELSE {calc_boundary_layer(stl_bbox, refAmt, nu, rho, U_val, expansionRatio,
                              target_cell_size)}

\* calc_layers(yFirst, delta, expRatio): the iterative search for the layer
\* count.  range(1, 50) ends before step 50.
LayerSteps == 50

\* r ** k for an integer k >= 0, by squaring
Squared(a) == Mul(a, a)

RECURSIVE Power(_, _)
Power(r, k) ==
    IF k = 0 THEN Num(1)
    ELSE IF k % 2 = 0 THEN Squared(Power(r, k \div 2))
    ELSE Mul(r, Power(r, k - 1))

\* a call of calc_layers at its first statement of the loop: its arguments,
\* its locals and its position (at: "for", "return", "done")
layer_search(yFirst, delta, expRatio) ==
    [op |-> "calc_layers", yFirst |-> yFirst, delta |-> delta, expRatio |-> expRatio,
     currentThickness |-> Mul(yFirst, Num(2)), currentDelta |-> Zero, N |-> 0, i |-> 1,
     at |-> "for"]

\* the end of step i: the test of the depth, N = i and break
layer_summed(c, currentThickness, currentDelta) ==
    IF Less(c.delta, currentDelta)
    THEN [c EXCEPT !.currentThickness = currentThickness, !.currentDelta = currentDelta,
                   !.N = c.i, !.at = "return"]
    ELSE [c EXCEPT !.currentThickness = currentThickness, !.currentDelta = currentDelta,
                   !.i = c.i + 1]

layer_grown(c, currentThickness) ==
    layer_summed(c, currentThickness, Add(c.currentDelta, currentThickness))

\* one pass of the loop of calc_layers, or its end when range(1, 50) is used up
layer_step(c) ==
    IF c.i = LayerSteps THEN [c EXCEPT !.at = "return"]
    ELSE layer_grown(c, Mul(c.currentThickness, Power(c.expRatio, c.i)))

\* the last two statements of calc_layers
layer_return(c) ==
    [op |-> c.op, yFirst |-> c.yFirst, delta |-> c.delta, expRatio |-> c.expRatio,
     currentDelta |-> c.currentDelta, at |-> "done",
     result |-> Ok(<<c.N, c.currentThickness>>)]

\* get_outside_point, from the bounding box of the mesh
get_outside_point(stl_bbox) ==
    <<Add(stl_bbox.maxx, Mul(Rat(5, 100), Sub(stl_bbox.maxx, stl_bbox.minx))),
      Mul(stl_bbox.miny, Rat(95, 100)),
      Quot(Sub(stl_bbox.maxz, stl_bbox.minz), Num(2))>>

\* find_inside_point of thirdparty/stlToOpenFOAM, the geometry reader's probe
\* for a point inside the surface: it finds one (the centre of the bounding
\* box stands for it) or raises
find_inside_point(stl_bbox, probe) ==
    IF probe = "found"
    THEN Ok(<<Quot(Add(stl_bbox.minx, stl_bbox.maxx), Num(2)),
              Quot(Add(stl_bbox.miny, stl_bbox.maxy), Num(2)),
              Quot(Add(stl_bbox.minz, stl_bbox.maxz), Num(2))>>)
    ELSE Raise("ProbeError")

\* get_location_in_mesh: both points are computed, whatever the flow regime
location_of(outside_point, inside_point, is_internal_flow) ==
    IF ~inside_point.ok THEN inside_point
    ELSE Ok(IF is_internal_flow THEN inside_point.val ELSE outside_point)

get_location_in_mesh(stl_bbox, is_internal_flow, probe) ==
    location_of(get_outside_point(stl_bbox), find_inside_point(stl_bbox, probe),
                is_internal_flow)

-----------------------------------------------------------------------------
(* The settings aggregate and its mutator add_stl_to_settings.             *)

RefLevel(refAmt) ==
    CASE refAmt = "coarse" -> 2 [] refAmt = "medium" -> 4 [] OTHER -> 6

TriSurfaceMeshGeometry(type, refineMin, refineMax, featureEdges, featureLevel, nLayers, property, bounds) ==
    [class |-> "TriSurfaceMeshGeometry", type |-> type, refineMin |-> refineMin,
     refineMax |-> refineMax, featureEdges |-> featureEdges,
     featureLevel |-> featureLevel, nLayers |-> nLayers, property |-> property,
     bounds |-> bounds]

\* class AddLayersControls: the defaults of the fields the mutator reads or writes
DefaultAddLayersControls ==
    [expansionRatio |-> Rat(14, 10), finalLayerThickness |-> Rat(3, 10),
     minThickness |-> Rat(1, 10000000)]

\* the mutable part of settings.mesh
Mesh(dom, mcs, loc, geo, alc) ==
    [domain |-> dom, maxCellSize |-> mcs, locationInMesh |-> loc,
     geometry |-> geo, addLayersControls |-> alc]

\* the outcome of a call: the mesh it leaves behind, and whether it returned
Returned(mesh) == [ok |-> TRUE, err |-> "none", mesh |-> mesh]
Raised(e, mesh) == [ok |-> FALSE, err |-> e, mesh |-> mesh]

\* f with key k set to v (dict assignment)
Put(f, k, v) == (k :> v) @@ f

\* the loop over settings.mesh.geometry.values() stamping every surface
Stamp(geo, ref_min, ref_max, feature_level, n_layer) ==
    [k \in DOMAIN geo |->
        IF geo[k].class = "TriSurfaceMeshGeometry"
        THEN [geo[k] EXCEPT !.refineMin = ref_min, !.refineMax = ref_max,
                            !.featureLevel = feature_level, !.nLayers = n_layer]
        ELSE geo[k]]

\* the message of the ValueError raised for a second wall
OnlyOneWall == "ValueError: Only one wall geometry entry allowed"

\* a check that never finds a wall
HasWall_NoCheck(geo) == FALSE

HasWall(geo) == \E k \in DOMAIN geo : geo[k].type = "wall"

\* a ground box for every external case, on the ground or not
ground_box_added_WhenExternal(geo, dom, stl_bbox, box_ref_level, on_ground, internal_flow) ==
    IF ~internal_flow
    THEN Put(geo, "groundBox", get_ground_refinement_box(dom, stl_bbox, box_ref_level))
    ELSE geo

\* the wall branch after the single-wall check, statement by statement; a
\* step that raises leaves the assignments made before it in place
\* lines 395-400: the refinement boxes, then the ground box
ground_box_added(geo, dom, stl_bbox, box_ref_level, on_ground, internal_flow) ==
    IF ~internal_flow /\ on_ground
    THEN Put(geo, "groundBox", get_ground_refinement_box(dom, stl_bbox, box_ref_level))
    ELSE geo

boxes_added(geo, dom, stl_bbox, box_ref_level, on_ground, internal_flow) ==
    ground_box_added(get_refinement_boxes(stl_bbox, "refinementBox", box_ref_level,
                                          internal_flow) @@ geo,
                     dom, stl_bbox, box_ref_level, on_ground, internal_flow)

\* lines 413-415
layers_controls(alc) ==
    [alc EXCEPT !.finalLayerThickness = Rat(5, 10),
                !.minThickness = RMax(Rat(1, 10000), Quot(Rat(5, 10), Num(100)))]

\* box levels of ref_level - 3 with no floor of 2
AddWall_boxes_NoFloor(m3, on_ground, internal_flow, stl_bbox, ref_level, n_layer) ==
    [ok |-> TRUE, err |-> "none",
     mesh |-> [m3 EXCEPT
                  !.geometry = Stamp(boxes_added(m3.geometry, m3.domain, stl_bbox,
                                                 ref_level - 3, on_ground,
                                                 internal_flow),
                                     IMax(1, ref_level), IMax(2, ref_level),
                                     IMax(ref_level, 1), n_layer),
                  !.addLayersControls = layers_controls(m3.addLayersControls)],
     n_layer |-> n_layer, ref_min |-> IMax(1, ref_level), ref_max |-> IMax(2, ref_level)]

\* lines 395-415, m3 being the mesh with its new locationInMesh
AddWall_boxes(m3, on_ground, internal_flow, stl_bbox, ref_level, n_layer) ==
    [ok |-> TRUE, err |-> "none",
     mesh |-> [m3 EXCEPT
                  !.geometry = Stamp(boxes_added(m3.geometry, m3.domain, stl_bbox,
                                                 IMax(2, ref_level - 3), on_ground,
                                                 internal_flow),
                                     IMax(1, ref_level), IMax(2, ref_level),
                                     IMax(ref_level, 1), n_layer),
                  !.addLayersControls = layers_controls(m3.addLayersControls)],
     n_layer |-> n_layer, ref_min |-> IMax(1, ref_level), ref_max |-> IMax(2, ref_level)]

\* line 393, m2 being the mesh with its new maxCellSize
AddWall_location(m2, on_ground, internal_flow, stl_bbox, ref_level, n_layer, loc) ==
    IF ~loc.ok THEN Raised(loc.err, m2)
    ELSE AddWall_boxes([m2 EXCEPT !.locationInMesh = loc.val], on_ground,
                       internal_flow, stl_bbox, ref_level, n_layer)

\* lines 387-393, m1 being the mesh with its new domain
AddWall_layers(m1, on_ground, internal_flow, stl_bbox, probe, ref_level, background_cell_size, boundary_layer) ==
    IF ~boundary_layer.ok THEN Raised(boundary_layer.err, m1)
    ELSE AddWall_location([m1 EXCEPT !.maxCellSize = background_cell_size],
                          on_ground, internal_flow, stl_bbox, ref_level,
                          boundary_layer.val.nLayers,
                          get_location_in_mesh(stl_bbox, internal_flow, probe))

\* lines 385-386
AddWall_cell_size(m1, refAmt, on_ground, internal_flow, nu, rho, u, stl_bbox, probe, ref_level, background_cell_size) ==
    AddWall_layers(m1, on_ground, internal_flow, stl_bbox, probe, ref_level,
                   background_cell_size,
                   calc_boundary_layer(stl_bbox, refAmt, nu, rho, u_max(u),
                                       m1.addLayersControls.expansionRatio,
                                       Quot(background_cell_size, Num(2 ^ ref_level))))

\* lines 381-384: the domain is stored, then the cell size read off stl_domain
AddWall_domain(m, refAmt, on_ground, internal_flow, nu, rho, u, stl_bbox, probe, stl_domain) ==
    IF ~stl_domain.ok THEN Raised(stl_domain.err, m)
    ELSE AddWall_cell_size(
             [m EXCEPT !.domain = Domain_update(m.domain, stl_domain.val, TRUE)],
             refAmt, on_ground, internal_flow, nu, rho, u, stl_bbox, probe,
             RefLevel(refAmt),
             RAbs(Quot(Sub(stl_domain.val.maxx, stl_domain.val.minx),
                       Num(stl_domain.val.nx))))

AddWall(m, refAmt, on_ground, half_model, internal_flow, nu, rho, u, stl_bbox, probe) ==
    AddWall_domain(m, refAmt, on_ground, internal_flow, nu, rho, u, stl_bbox, probe,
                   calc_domain(stl_bbox, refAmt, on_ground, internal_flow,
                               half_model, Num(2), Num(1)))

\* the layer count of a surface that is not a wall
NonWallLayers(refAmt) ==
    CASE refAmt = "coarse" -> 2 [] refAmt = "medium" -> 4 [] OTHER -> 6

\* add_stl_to_settings(settings, stl_path, type, property); stl_name and
\* stl_bbox are what the file gives, probe what find_inside_point does on it
\* lines 449-458: the surface is registered under its file name
surface_registered(w, stl_name, stl_bbox, type, property) ==
    IF ~w.ok THEN w
    ELSE Returned([w.mesh EXCEPT !.geometry =
             Put(w.mesh.geometry, stl_name,
                 TriSurfaceMeshGeometry(type, w.ref_min, w.ref_max,
                     type \notin {"refinementRegion", "refinementSurface"},
                     1, w.n_layer, property, stl_bbox))])

add_stl_to_settings(m, refAmt, on_ground, half_model, internal_flow, nu, rho, u, stl_name, stl_bbox, type, property, probe) ==
    surface_registered(
        IF type = "wall"
        THEN IF HasWall(m.geometry)
             THEN Raised(OnlyOneWall, m)
             ELSE AddWall(m, refAmt, on_ground, half_model, internal_flow,
                          nu, rho, u, stl_bbox, probe)
        ELSE [ok |-> TRUE, err |-> "none", mesh |-> m,
              n_layer |-> NonWallLayers(refAmt), ref_min |-> 0, ref_max |-> 0],
        stl_name, stl_bbox, type, property)

-----------------------------------------------------------------------------
(* The modification service (services/mod_service.py).                     *)

\* ModService.change_domain_size: bounds is a plain BoundingBox
change_domain_size(dom, bounds) == Domain_update(dom, bounds, FALSE)

\* ModService.change_mesh_size: the three counts are assigned in place
counts_assigned(dom, n) ==
    IF ~n.ok THEN Raise(n.err)
    ELSE Ok([dom EXCEPT !.nx = n.val[1], !.ny = n.val[2], !.nz = n.val[3]])

change_mesh_size(dom, cellSize) == counts_assigned(dom, calc_nx_ny_nz(dom, cellSize))

-----------------------------------------------------------------------------
(* Inputs.                                                                 *)

RefinementAmounts == {"coarse", "medium", "fine"}

\* file names of the surfaces a project is given
StlNames == {"a.stl", "b.stl"}

\* purposes of the surfaces
PatchTypes == {"wall", "inlet", "refinementRegion"}

\* bounding boxes of the surface files: a long body, a cube, a flat patch
StlBoxes == {IntBox(0, 10, 0, 2, 0, 2), IntBox(0, 1, 0, 1, 0, 1),
             IntBox(0, 1, 0, 1, 0, 0)}

Probes == {"found", "fails"}

\* the property asked for a purpose: an inlet has a velocity, the others none
NoProperty == <<>>
PatchProperties(type) ==
    IF type = "inlet" THEN {<<Num(1), Num(0), Num(0)>>} ELSE {NoProperty}

\* what the inside-point probe may do; it is only run for a wall
ProbesFor(type) == IF type = "wall" THEN Probes ELSE {"found"}


\* fluids: the default (FluidProperties(rho=1.0, nu=1.0e-6)) and one without
\* viscosity
Fluids == {[rho |-> Num(1), nu |-> Rat(1, 1000000)], [rho |-> Num(1), nu |-> Zero]}

\* inlet velocities: the default of velocityInlet
Velocities == {<<Num(1), Num(0), Num(0)>>}

\* boxes asked of change_domain_size
DomainBounds == {IntBox(-4, 4, -2, 2, -2, 2), IntBox(0, 1, 0, 1, 0, 1)}

\* cell sizes asked of change_mesh_size
CellSizes == {Rat(1, 4), Num(100)}

-----------------------------------------------------------------------------
(* The state machine of the aggregate.                                     *)

NoCall == [op |-> "none"]

TheMesh == Mesh(domain, maxCellSize, locationInMesh, geometry, addLayersControls)

Config == <<refAmount, onGround, halfModel, internalFlow, fluid, u_value>>

\* MeshSettings(), SnappyHexMeshSettings(), PhysicalProperties(),
\* BoundaryConditions(): the defaults, under the regime of the project
Init ==
    /\ domain = DefaultDomain
    /\ maxCellSize = Rat(1, 2)
    /\ locationInMesh = <<Zero, Zero, Zero>>
    /\ geometry = <<>>
    /\ addLayersControls = DefaultAddLayersControls
    /\ refAmount \in RefinementAmounts
    /\ onGround \in BOOLEAN
    /\ halfModel \in BOOLEAN
    /\ internalFlow \in BOOLEAN
    /\ fluid \in Fluids
    /\ u_value \in Velocities
    /\ last = [op |-> "init"]
    /\ ops = 0
    /\ call = NoCall

SetMesh(m) ==
    /\ domain' = m.domain
    /\ maxCellSize' = m.maxCellSize
    /\ locationInMesh' = m.locationInMesh
    /\ geometry' = m.geometry
    /\ addLayersControls' = m.addLayersControls

\* what a call of the mutator leaves: the mesh, and its outcome in last
AddStlDone(r, stl_name, stl_bbox, type) ==
    /\ SetMesh(r.mesh)
    /\ last' = [op |-> "add_stl_to_settings", name |-> stl_name,
                bbox |-> stl_bbox, type |-> type, ok |-> r.ok, err |-> r.err]

\* StlAnalysis.add_stl_to_settings on one surface file
AddStl ==
    /\ ops < MaxOps
    /\ ops' = ops + 1
    /\ \E stl_name \in StlNames, stl_bbox \in StlBoxes, type \in PatchTypes :
       \E property \in PatchProperties(type), probe \in ProbesFor(type) :
        AddStlDone(add_stl_to_settings(TheMesh, refAmount, onGround, halfModel,
                                       internalFlow, fluid.nu, fluid.rho, u_value,
                                       stl_name, stl_bbox, type, property, probe),
                   stl_name, stl_bbox, type)
    /\ UNCHANGED <<Config, call>>

\* ModService.change_domain_size
ChangeDomainSize ==
    /\ ops < MaxOps
    /\ ops' = ops + 1
    /\ \E bounds \in DomainBounds :
        /\ domain' = change_domain_size(domain, bounds)
        /\ last' = [op |-> "change_domain_size", bounds |-> bounds, ok |-> TRUE]
        /\ UNCHANGED <<maxCellSize, locationInMesh, geometry, addLayersControls,
                       Config, call>>

ChangeMeshSizeDone(r, cellSize) ==
    /\ domain' = IF r.ok THEN r.val ELSE domain
    /\ last' = [op |-> "change_mesh_size", cellSize |-> cellSize, ok |-> r.ok]

\* ModService.change_mesh_size
ChangeMeshSize ==
    /\ ops < MaxOps
    /\ ops' = ops + 1
    /\ \E cellSize \in CellSizes :
        ChangeMeshSizeDone(change_mesh_size(domain, cellSize), cellSize)
    /\ UNCHANGED <<maxCellSize, locationInMesh, geometry, addLayersControls,
                   Config, call>>

Next == AddStl \/ ChangeDomainSize \/ ChangeMeshSize

Spec == Init /\ [][Next]_vars

-----------------------------------------------------------------------------
(* The older mutator, StlAnalysis.update_settings of src/utils/            *)
(* stl_analysis.py, with the helpers that differ from the ones above.      *)

\* the cell size is derived from the domain box, not from the surface box
legacy_calc_domain(stl_bbox, refAmt, on_ground, internal_flow, is_half_model, max_cell_size, size_factor) ==
    domain_of(calc_domain_bbox(stl_bbox, size_factor, on_ground, internal_flow,
                               is_half_model),
              calc_background_cell_size(
                  refAmt,
                  calc_domain_bbox(stl_bbox, size_factor, on_ground, internal_flow,
                                   is_half_model),
                  cell_size_cap(stl_bbox, max_cell_size),
                  internal_flow))

\* fixed offsets, whatever the size of the surface
legacy_get_refinement_box(stl_bbox) ==
    scale_dimensions(stl_bbox, Rat(-7, 10), Num(15), Num(-1), Num(1), Num(-1), Num(1))

legacy_get_refinement_box_close(stl_bbox) ==
    scale_dimensions(stl_bbox, Rat(-2, 10), Num(3), Rat(-45, 100), Rat(45, 100),
                     Rat(-45, 100), Rat(45, 100))

LegacyBoxGeometry(box, refineMax) ==
    [class |-> "SearchableBoxGeometry", type |-> "searchableBox",
     purpose |-> "refinementRegion", bbox |-> box, refineMax |-> refineMax]

legacy_get_refinement_boxes(stl_bbox, boxName, ref_level, is_internal_flow) ==
    IF is_internal_flow
    THEN <<>>
    ELSE ("fineBox" :> LegacyBoxGeometry(legacy_get_refinement_box_close(stl_bbox), ref_level))
         @@ (boxName :> LegacyBoxGeometry(legacy_get_refinement_box(stl_bbox), ref_level - 1))

legacy_ground_slab(g) == LegacyBoxGeometry(g.bbox, g.refineMax)

legacy_get_ground_refinement_box(mesh_domain, stl_bbox, refLevel) ==
    legacy_ground_slab(get_ground_refinement_box(mesh_domain, stl_bbox, refLevel))

LegacySurfaceGeometry(purpose, refineMin, refineMax, featureEdges, featureLevel, nLayers, property, bounds) ==
    [class |-> "TriSurfaceMeshGeometry", purpose |-> purpose, refineMin |-> refineMin,
     refineMax |-> refineMax, featureEdges |-> featureEdges,
     featureLevel |-> featureLevel, nLayers |-> nLayers, property |-> property,
     bounds |-> bounds]

\* calc_num_layers(stl_bbox, domain, settings, ref_level)
layer_count(bl) == IF ~bl.ok THEN bl ELSE Ok(bl.val.nLayers)

calc_num_layers(stl_bbox, dom, refAmt, nu, rho, U_val, expansionRatio, ref_level) ==
    IF dom.nx = 0 THEN Raise("ZeroDivisionError")
    ELSE layer_count(
             calc_boundary_layer(stl_bbox, refAmt, nu, rho, U_val, expansionRatio,
                                 Quot(Quot(Sub(dom.maxx, dom.minx), Num(dom.nx)),
                                      Num(2 ^ ref_level))))

\* update_settings(settings, stl_path, purpose, property), statement by
\* statement: every surface, wall or not, drives the whole recomputation
legacy_ground_box_added(geo, dom, stl_bbox, box_ref_level, on_ground, internal_flow) ==
    IF ~internal_flow /\ on_ground
    THEN Put(geo, "groundBox",
             legacy_get_ground_refinement_box(dom, stl_bbox, box_ref_level))
    ELSE geo

legacy_boxes_added(geo, dom, stl_bbox, box_ref_level, on_ground, internal_flow) ==
    legacy_ground_box_added(
        legacy_get_refinement_boxes(stl_bbox, "refinementBox", box_ref_level,
                                    internal_flow) @@ geo,
        dom, stl_bbox, box_ref_level, on_ground, internal_flow)

\* from the location in the mesh to the end, m2 being the mesh with the
\* surface registered and stamped
update_settings_location(m2, on_ground, internal_flow, stl_bbox, ref_level, loc) ==
    IF ~loc.ok THEN Raised(loc.err, m2)
    ELSE Returned([m2 EXCEPT
             !.locationInMesh = loc.val,
             !.geometry = legacy_boxes_added(m2.geometry, m2.domain, stl_bbox,
                                             IMax(2, ref_level - 3), on_ground,
                                             internal_flow),
             !.addLayersControls = layers_controls(m2.addLayersControls),
             !.maxCellSize = RAbs(Quot(Sub(m2.domain.maxx, m2.domain.minx),
                                       Num(m2.domain.nx)))])

\* the surface is registered, then every surface stamped; m1 is the mesh
\* with its new domain
update_settings_layers(m1, on_ground, internal_flow, stl_name, stl_bbox, purpose, property, probe, ref_level, num_layers) ==
    IF ~num_layers.ok THEN Raised(num_layers.err, m1)
    ELSE update_settings_location(
             [m1 EXCEPT !.geometry =
                 Stamp(Put(m1.geometry, stl_name,
                           LegacySurfaceGeometry(purpose, 0, 0,
                               purpose \notin {"refinementRegion", "refinementSurface"},
                               1, num_layers.val, property, stl_bbox)),
                       IMax(1, ref_level), IMax(2, ref_level), IMax(ref_level, 1),
                       num_layers.val)],
             on_ground, internal_flow, stl_bbox, ref_level,
             get_location_in_mesh(stl_bbox, internal_flow, probe))

\* the computed domain is assigned as it is
update_settings_domain(m, refAmt, on_ground, internal_flow, nu, rho, u, stl_name, stl_bbox, purpose, property, probe, dom) ==
    IF ~dom.ok THEN Raised(dom.err, m)
    ELSE update_settings_layers(
             [m EXCEPT !.domain = dom.val], on_ground, internal_flow, stl_name,
             stl_bbox, purpose, property, probe, RefLevel(refAmt),
             calc_num_layers(stl_bbox, dom.val, refAmt, nu, rho, u_max(u),
                             m.addLayersControls.expansionRatio, RefLevel(refAmt)))

update_settings(m, refAmt, on_ground, half_model, internal_flow, nu, rho, u, stl_name, stl_bbox, purpose, property, probe) ==
    update_settings_domain(m, refAmt, on_ground, internal_flow, nu, rho, u, stl_name,
                           stl_bbox, purpose, property, probe,
                           legacy_calc_domain(stl_bbox, refAmt, on_ground,
                                              internal_flow, half_model,
                                              Num(2), Num(1)))

UpdateSettingsDone(r, stl_name, stl_bbox, purpose) ==
    /\ SetMesh(r.mesh)
    /\ last' = [op |-> "update_settings", name |-> stl_name,
                bbox |-> stl_bbox, type |-> purpose, ok |-> r.ok, err |-> r.err]

\* StlAnalysis.update_settings on one surface file
UpdateSettings ==
    /\ ops < MaxOps
    /\ ops' = ops + 1
    /\ \E stl_name \in StlNames, stl_bbox \in StlBoxes, purpose \in PatchTypes :
       \E property \in PatchProperties(purpose), probe \in Probes :
        UpdateSettingsDone(update_settings(TheMesh, refAmount, onGround, halfModel,
                                           internalFlow, fluid.nu, fluid.rho, u_value,
                                           stl_name, stl_bbox, purpose, property, probe),
                           stl_name, stl_bbox, purpose)
    /\ UNCHANGED <<Config, call>>

NextLegacy == UpdateSettings \/ ChangeDomainSize \/ ChangeMeshSize

SpecLegacy == Init /\ [][NextLegacy]_vars

-----------------------------------------------------------------------------
(* The pure functions of StlAnalysis and BoundingBox, called on their own. *)
(* A behaviour makes one call, and its arguments and result are kept in    *)
(* call; a call of calc_layers takes one step for each pass of its loop.   *)
(* The aggregate stays as constructed.                                     *)

\* the intervals [lo, hi] of the grid 0..MaxCoord, in a fixed order
Intervals == {<<lo, hi>> : lo \in 0..MaxCoord, hi \in 0..MaxCoord} \ 
             {<<lo, hi>> \in (0..MaxCoord) \X (0..MaxCoord) : lo > hi}

\* every box with min <= max on the grid, degenerate ones included
GridBoxes == {IntBox(x[1], x[2], y[1], y[2], z[1], z[2]) :
                 x \in Intervals, y \in Intervals, z \in Intervals}

\* the same boxes stretched tenfold along x: length ratios of 5, 10 and 20
LongBoxes == {IntBox(10 * x[1], 10 * x[2], y[1], y[2], z[1], z[2]) :
                 x \in Intervals, y \in Intervals, z \in Intervals}

SizeFactors == {Rat(1, 2), Num(1), Num(2)}

MaxCellSizes == {Rat(1, 10), Rat(1, 2), Num(2)}

\* names a caller gives the coarse box (the default is "refinementBox")
BoxNames == {"refinementBox", "wakeBox"}

InitFn ==
    /\ domain = DefaultDomain
    /\ maxCellSize = Rat(1, 2)
    /\ locationInMesh = <<Num(0), Num(0), Num(0)>>
    /\ geometry = <<>>
    /\ addLayersControls = DefaultAddLayersControls
    /\ refAmount = "coarse"
    /\ onGround = FALSE
    /\ halfModel = FALSE
    /\ internalFlow = FALSE
    /\ fluid = [rho |-> Num(1), nu |-> Rat(1, 1000000)]
    /\ u_value = <<Num(1), Num(0), Num(0)>>
    /\ last = [op |-> "init"]
    /\ ops = 0
    /\ call = NoCall

Aggregate == <<domain, maxCellSize, locationInMesh, geometry, addLayersControls,
               refAmount, onGround, halfModel, internalFlow, fluid, u_value,
               last, ops>>

CallCalcDomainBbox ==
    /\ call = NoCall
    /\ \E stl_bbox \in GridBoxes, size_factor \in SizeFactors :
       \E on_ground \in BOOLEAN, internal_flow \in BOOLEAN, is_half_model \in BOOLEAN :
        call' = [op |-> "calc_domain_bbox", stl_bbox |-> stl_bbox,
                 size_factor |-> size_factor, on_ground |-> on_ground,
                 internal_flow |-> internal_flow, is_half_model |-> is_half_model,
                 result |-> calc_domain_bbox(stl_bbox, size_factor, on_ground,
                                             internal_flow, is_half_model)]
    /\ UNCHANGED Aggregate

CallGetRefinementBoxes ==
    /\ call = NoCall
    /\ \E stl_bbox \in GridBoxes, boxName \in BoxNames :
       \E ref_level \in 0..MaxRefLevel, is_internal_flow \in BOOLEAN :
        call' = [op |-> "get_refinement_boxes", stl_bbox |-> stl_bbox,
                 boxName |-> boxName, ref_level |-> ref_level,
                 is_internal_flow |-> is_internal_flow,
                 result |-> get_refinement_boxes(stl_bbox, boxName, ref_level,
                                                 is_internal_flow)]
    /\ UNCHANGED Aggregate

\* the same box, cap and flow type at each of the three refinement amounts
CallCalcBackgroundCellSize ==
    /\ call = NoCall
    /\ \E stl_bbox \in GridBoxes \cup LongBoxes, max_cell_size \in MaxCellSizes :
       \E internal_flow \in BOOLEAN :
        call' = [op |-> "calc_background_cell_size", stl_bbox |-> stl_bbox,
                 max_cell_size |-> max_cell_size, internal_flow |-> internal_flow,
                 result |-> [a \in RefinementAmounts |->
                                calc_background_cell_size(a, stl_bbox, max_cell_size,
                                                          internal_flow)]]
    /\ UNCHANGED Aggregate

\* boxes whose three axes run through the intervals in step, so that every
\* axis meets every triple of intervals
RECURSIVE SetToSeq(_)
SetToSeq(S) == IF S = {} THEN <<>>
               ELSE LET x == CHOOSE y \in S : TRUE IN <<x>> \o SetToSeq(S \ {x})

IntervalSeq == SetToSeq(Intervals)

StepBox(k) ==
    LET n == Len(IntervalSeq)
        x == IntervalSeq[k]
        y == IntervalSeq[(k % n) + 1]
        z == IntervalSeq[((k + 1) % n) + 1]
    IN  IntBox(x[1], x[2], y[1], y[2], z[1], z[2])

StepBoxes == {StepBox(k) : k \in 1..Len(IntervalSeq)}

\* BoundingBox.update(a, b) on one, two and three boxes
CallBoundingBoxUpdate ==
    /\ call = NoCall
    /\ \E a \in StepBoxes, b \in StepBoxes, c \in StepBoxes :
        call' = [op |-> "BoundingBox.update", a |-> a, b |-> b, c |-> c,
                 aa |-> BoundingBox_update(a, a),
                 ab |-> BoundingBox_update(a, b),
                 ba |-> BoundingBox_update(b, a),
                 ab_c |-> BoundingBox_update(BoundingBox_update(a, b), c),
                 a_bc |-> BoundingBox_update(a, BoundingBox_update(b, c))]
    /\ UNCHANGED Aggregate

\* the caps a caller may pass to calc_domain: its default 2.0, the default
\* of mesh.maxCellSize, and one below the 0.001 threshold
CellSizeCaps == {Num(2), Rat(1, 2), Rat(1, 2000)}

\* the boxes of the calc_domain calls: the unit cube, a body of 10 x 2 x 2,
\* a slender duct and a flat plate
DomainBoxes == {IntBox(0, 1, 0, 1, 0, 1), IntBox(0, 10, 0, 2, 0, 2),
                IntBox(0, 20, 0, 1, 0, 1), IntBox(0, 1, 0, 1, 0, 0)}

CallCalcDomain ==
    /\ call = NoCall
    /\ \E stl_bbox \in DomainBoxes, refAmt \in RefinementAmounts :
       \E on_ground \in BOOLEAN, internal_flow \in BOOLEAN, is_half_model \in BOOLEAN :
       \E max_cell_size \in CellSizeCaps :
        call' = [op |-> "calc_domain", stl_bbox |-> stl_bbox, refAmount |-> refAmt,
                 on_ground |-> on_ground, internal_flow |-> internal_flow,
                 is_half_model |-> is_half_model, max_cell_size |-> max_cell_size,
                 result |-> calc_domain(stl_bbox, refAmt, on_ground, internal_flow,
                                        is_half_model, max_cell_size, Num(1))]
    /\ UNCHANGED Aggregate

\* arguments of calc_boundary_layer: surfaces (one of zero size), fluids and
\* inlet speeds of either sign, the expansion ratios 1.2 and 1.4 (the default)
LayerBoxes == {IntBox(0, 1, 0, 1, 0, 1), IntBox(0, 10, 0, 2, 0, 2), IntBox(0, 0, 0, 0, 0, 0)}

Viscosities == {Rat(1, 1000000), Rat(1, 1000), Zero, Rat(-1, 1000000)}

Densities == {Num(1), Num(1000), Zero, Num(-1)}

InletSpeeds == {Num(1), Num(10), Zero, Num(-1)}

ExpansionRatios == {Rat(6, 5), Rat(7, 5)}

TargetCellSizes == {Rat(1, 3), Rat(2, 3), Rat(1, 100), Zero}

CallCalcBoundaryLayer ==
    /\ call = NoCall
    /\ \E stl_bbox \in LayerBoxes, refAmt \in RefinementAmounts :
       \E nu \in Viscosities, rho \in Densities, U_val \in InletSpeeds :
       \E expansionRatio \in ExpansionRatios, target_cell_size \in TargetCellSizes :
       \E result \in calc_boundary_layer_outcomes(stl_bbox, refAmt, nu, rho, U_val,
                                                  expansionRatio, target_cell_size) :
        call' = [op |-> "calc_boundary_layer", stl_bbox |-> stl_bbox, refAmount |-> refAmt,
                 nu |-> nu, rho |-> rho, U_val |-> U_val,
                 expansionRatio |-> expansionRatio,
                 target_cell_size |-> target_cell_size, result |-> result]
    /\ UNCHANGED Aggregate

\* arguments of calc_layers: the defaults yFirst = 0.001, delta = 0.01 and
\* expRatio = 1.2 among them; layers that do not grow and a first layer of
\* no thickness; depths that the growth at 1.2 and 1.4 passes within three
\* steps
LayerSearches ==
    {<<y, d, r>> : y \in {Rat(1, 1000), Rat(1, 100)},
                   d \in {Rat(1, 100), Rat(1, 50), Num(1)}, r \in {Num(1), Num(2)}}
    \cup {<<Zero, d, Num(1)>> : d \in {Rat(1, 100), Num(1)}}
    \cup {<<Rat(1, 1000), d, r>> : d \in {Rat(1, 200), Rat(1, 100)}, r \in ExpansionRatios}

\* the closed form of calc_boundary_layer on the arguments of calc_layers
closed_form_layers(first_layer_thickness, final_layer_thickness, expansionRatio) ==
    IMax(1, IntLog(Quot(final_layer_thickness, first_layer_thickness), expansionRatio))

CallCalcLayers ==
    /\ call = NoCall
    /\ \E a \in LayerSearches : call' = layer_search(a[1], a[2], a[3])
    /\ UNCHANGED Aggregate

CalcLayersStep ==
    /\ call.op = "calc_layers"
    /\ call.at = "for"
    /\ call' = layer_step(call)
    /\ UNCHANGED Aggregate

CalcLayersReturn ==
    /\ call.op = "calc_layers"
    /\ call.at = "return"
    /\ call' = layer_return(call)
    /\ UNCHANGED Aggregate

\* arguments of calc_y: its defaults nu = 1e-6, rho = 1000, L = 1, U_val = 1
\* and target_yPlus = 200 among them, and the targets of calc_boundary_layer
WallTargets == {30, 50, 70, 200}

CallCalcY ==
    /\ call = NoCall
    /\ \E nu \in {Rat(1, 1000000), Rat(1, 100000), Zero}, rho \in {Num(1), Num(1000)} :
       \E L \in {Num(1), Num(10), Zero}, U_val \in {Num(1), Num(10)} :
       \E target_yPlus \in WallTargets :
        call' = [op |-> "calc_y", nu |-> nu, rho |-> rho, L |-> L, U_val |-> U_val,
                 target_yPlus |-> target_yPlus,
                 result |-> calc_y(nu, rho, L, U_val, target_yPlus)]
    /\ UNCHANGED Aggregate

\* cell sizes that binary floats hold exactly
TargetSizes == {Rat(1, 4), Rat(1, 2), Rat(3, 4), Num(1), Num(3), Num(100)}

CallCalcNxNyNz ==
    /\ call = NoCall
    /\ \E domain_bbox \in GridBoxes \cup LongBoxes, target_cell_size \in TargetSizes :
        call' = [op |-> "calc_nx_ny_nz", domain_bbox |-> domain_bbox,
                 target_cell_size |-> target_cell_size,
                 result |-> calc_nx_ny_nz(domain_bbox, target_cell_size)]
    /\ UNCHANGED Aggregate

\* first and final layer thicknesses for the last lines of
\* calc_boundary_layer, with the expansion ratio 2 ...
Thicknesses == {Rat(1, 100), Rat(1, 10), Rat(1, 8), Rat(1, 3), Rat(1, 2), Num(1), Rat(5, 2)}

\* ... and with the ratios 1.2 and 1.4: exact powers of either among the
\* quotients, and no quotient above 4
CloseThicknesses == {Rat(1, 2), Rat(2, 3), Num(1), Rat(36, 25), Rat(49, 25), Num(2)}

NumLayersCalls == {<<f, l, Num(2)>> : f \in Thicknesses, l \in Thicknesses} \cup {<<f, l, r>> : f \in CloseThicknesses, l \in CloseThicknesses, r \in ExpansionRatios}

\* lines 289-300 of calc_boundary_layer on its own, the target y+ being 30
\* and y half the first layer
CallNumLayers ==
    /\ call = NoCall
    /\ \E a \in NumLayersCalls :
        call' = [op |-> "num_layers",
                 first_layer_thickness |-> a[1],
                 final_layer_thickness |-> a[2],
                 expansionRatio |-> a[3],
                 result |-> layers_of_thickness(30, Quot(a[1], Num(2)), a[1], a[2], a[3])]
    /\ UNCHANGED Aggregate

\* inlet velocity vectors: the default (1, 0, 0), vectors off the axes and
\* their opposites
InletVectors == {<<Num(1), Zero, Zero>>, <<Num(-1), Zero, Zero>>, <<Num(3), Num(4), Zero>>, <<Num(-3), Num(-4), Zero>>, <<Zero, Num(-2), Zero>>, <<Zero, Zero, Zero>>}

\* BoundaryCondition.u_max, the U_val of calc_boundary_layer
CallUMax ==
    /\ call = NoCall
    /\ \E u_val \in InletVectors :
        call' = [op |-> "u_max", u_value |-> u_val, result |-> u_max(u_val)]
    /\ UNCHANGED Aggregate

\* get_location_in_mesh on a surface whose probe finds an inside point
CallGetLocationInMesh ==
    /\ call = NoCall
    /\ \E stl_bbox \in GridBoxes, is_internal_flow \in BOOLEAN :
        call' = [op |-> "get_location_in_mesh", stl_bbox |-> stl_bbox,
                 is_internal_flow |-> is_internal_flow,
                 result |-> get_location_in_mesh(stl_bbox, is_internal_flow, "found")]
    /\ UNCHANGED Aggregate

NextFn ==
    \/ CallCalcDomainBbox
    \/ CallGetRefinementBoxes
    \/ CallCalcBackgroundCellSize
    \/ CallBoundingBoxUpdate
    \/ CallCalcDomain
    \/ CallCalcBoundaryLayer
    \/ CallCalcLayers
    \/ CalcLayersStep
    \/ CalcLayersReturn
    \/ CallCalcY
    \/ CallCalcNxNyNz
    \/ CallNumLayers
    \/ CallUMax
    \/ CallGetLocationInMesh

SpecFn == InitFn /\ [][NextFn]_vars

-----------------------------------------------------------------------------
(* Properties of the aggregate under the mutators.                         *)

\* the purpose of a surface: the field is "type" in the current model
\* classes and "purpose" in the older ones
PurposeOf(g) == IF "purpose" \in DOMAIN g THEN g.purpose ELSE g.type

WallSurfaces(geo) ==
    {k \in DOMAIN geo : geo[k].class = "TriSurfaceMeshGeometry"
                        /\ PurposeOf(geo[k]) = "wall"}

\* C1: in every reachable state the geometry collection holds at most one
\* surface registered as a wall.
C1_AtMostOneWall == Cardinality(WallSurfaces(geometry)) <= 1

\* C2: adding a wall when the collection already holds one raises the
\* single-wall ValueError and leaves domain, maxCellSize, locationInMesh,
\* geometry and addLayersControls exactly as they were.
C2_SecondWallRejected ==
    [][(last'.op = "add_stl_to_settings" /\ last'.type = "wall"
        /\ WallSurfaces(geometry) # {})
       => (~last'.ok /\ last'.err = OnlyOneWall /\ TheMesh' = TheMesh)]_vars

\* a second wall has just been rejected
C2_Witness ==
    /\ last.op = "add_stl_to_settings" /\ last.type = "wall"
    /\ ~last.ok /\ last.err = OnlyOneWall
    /\ WallSurfaces(geometry) # {}
    /\ last.name \notin WallSurfaces(geometry)

\* C3: a call of add_stl_to_settings that raises, for whatever reason,
\* leaves the aggregate exactly as it was before the call.
C3_FailedAddLeavesAggregate ==
    [][(last'.op = "add_stl_to_settings" /\ ~last'.ok) => TheMesh' = TheMesh]_vars

\* C4: the cell counts of the domain are even and at least 2 in every
\* reachable state, after wall additions, domain changes and mesh-size
\* changes alike.
C4_EvenCounts ==
    \A n \in {domain.nx, domain.ny, domain.nz} : n >= 2 /\ n % 2 = 0

\* a mesh-size change or a wall addition has set counts other than the
\* defaults, one of them rounded up from an odd ceiling to 2
C4_Witness ==
    /\ last.op \in {"change_mesh_size", "add_stl_to_settings"}
    /\ last.ok
    /\ <<domain.nx, domain.ny, domain.nz>> # <<50, 20, 20>>
    /\ 2 \in {domain.nx, domain.ny, domain.nz}

\* C6: after a wall is added successfully the stored domain is the domain
\* computed from that wall, whatever the domain was before.
C6_DomainIsComputedDomain ==
    (last.op = "add_stl_to_settings" /\ last.type = "wall" /\ last.ok)
    => domain = calc_domain(last.bbox, refAmount, onGround, internalFlow,
                            halfModel, Num(2), Num(1)).val

-----------------------------------------------------------------------------
(* Properties of the pure functions.                                       *)

\* C5: for every surface box of positive max_length, every size factor > 0
\* and every combination of internalFlow, onGround and halfModel, the box
\* returned by calc_domain_bbox contains the surface box on all six faces.
C5_DomainContainsSurface ==
    (call.op = "calc_domain_bbox" /\ Less(Zero, max_length(call.stl_bbox)))
    => LET d == call.result
           s == call.stl_bbox
       IN  /\ Leq(d.minx, s.minx) /\ Leq(s.maxx, d.maxx)
           /\ Leq(d.miny, s.miny) /\ Leq(s.maxy, d.maxy)
           /\ Leq(d.minz, s.minz) /\ Leq(s.maxz, d.maxz)

\* C5, amended: under the same conditions the returned box contains the
\* surface box on the five faces other than max-y whatever the flags, and on
\* max-y as well when halfModel is false; when halfModel is true its max-y is
\* the y mid-plane (miny + maxy)/2 of the surface box.
C5_DomainContainsSurfaceUpToMidPlane ==
    (call.op = "calc_domain_bbox" /\ Less(Zero, max_length(call.stl_bbox)))
    => LET d == call.result
           s == call.stl_bbox
       IN  /\ Leq(d.minx, s.minx) /\ Leq(s.maxx, d.maxx)
           /\ Leq(d.miny, s.miny)
           /\ Leq(d.minz, s.minz) /\ Leq(s.maxz, d.maxz)
           /\ IF call.is_half_model
              THEN d.maxy = Quot(Add(s.miny, s.maxy), Num(2))
              ELSE Leq(s.maxy, d.maxy)

\* a half model whose domain ends below the top of the surface in y
C5_Witness ==
    /\ call.op = "calc_domain_bbox"
    /\ call.is_half_model
    /\ Less(call.result.maxy, call.stl_bbox.maxy)

\* C7: get_refinement_boxes returns no box for internal flow; for external
\* flow it returns exactly two boxes, the one under "fineBox" one refinement
\* level above the other.
C7_RefinementBoxes ==
    call.op = "get_refinement_boxes"
    => LET r == call.result
       IN  IF call.is_internal_flow
           THEN DOMAIN r = {}
           ELSE /\ DOMAIN r = {call.boxName, "fineBox"}
                /\ Cardinality(DOMAIN r) = 2
                /\ \A k \in DOMAIN r : r[k].class = "SearchableBoxGeometry"
                /\ r["fineBox"].refineMax = r[call.boxName].refineMax + 1

\* an external call, made at level 0, has returned its two boxes
C7_Witness ==
    /\ call.op = "get_refinement_boxes"
    /\ ~call.is_internal_flow
    /\ call.ref_level = 0
    /\ Cardinality(DOMAIN call.result) = 2

\* C8: for a fixed surface box, flow type and maxCellSize the background cell
\* size does not grow with the refinement amount: coarse >= medium >= fine.
C8_CellSizeMonotone ==
    call.op = "calc_background_cell_size"
    => LET r == call.result
       IN  /\ r["coarse"].ok = r["medium"].ok /\ r["medium"].ok = r["fine"].ok
           /\ r["coarse"].ok => /\ Leq(r["medium"].val, r["coarse"].val)
                                /\ Leq(r["fine"].val, r["medium"].val)

\* an internal-flow call on a slender box whose three sizes fall strictly
C8_Witness ==
    /\ call.op = "calc_background_cell_size"
    /\ call.internal_flow
    /\ call.result["coarse"].ok
    /\ Less(Num(10), Quot(max_length(call.stl_bbox), min_length(call.stl_bbox)))
    /\ Less(call.result["medium"].val, call.result["coarse"].val)
    /\ Less(call.result["fine"].val, call.result["medium"].val)

\* the call of the example: box (0,10,0,2,0,2), external flow, not on
\* ground, full model, coarse, and a cap of 0.5
C9_Call ==
    /\ call.op = "calc_domain"
    /\ call.stl_bbox = IntBox(0, 10, 0, 2, 0, 2)
    /\ ~call.internal_flow /\ ~call.on_ground /\ ~call.is_half_model
    /\ call.refAmount = "coarse"
    /\ call.max_cell_size = Rat(1, 2)

\* the background cell size calc_domain uses in the call
C9_CellSize ==
    calc_background_cell_size(call.refAmount, call.stl_bbox, call.max_cell_size,
                              call.internal_flow).val

\* C9: for the example call the domain computation yields the background
\* cell size 0.5, a domain spanning x in [-30,90], y and z in [-20,20], and
\* nx = 240.
C9_Scenario ==
    C9_Call => /\ call.result.ok
               /\ C9_CellSize = Rat(1, 2)
               /\ bbox(call.result.val) = IntBox(-30, 90, -20, 20, -20, 20)
               /\ call.result.val.nx = 240

\* C9, amended: for the example call, with 0.5 the cap passed to
\* calc_domain, the domain computation yields the background cell size 0.5,
\* a domain spanning x in [-30,100], y and z in [-20,22], and nx = 260.
C9_ScenarioFromSurfaceFaces ==
    C9_Call => /\ call.result.ok
               /\ C9_CellSize = Rat(1, 2)
               /\ bbox(call.result.val) = IntBox(-30, 100, -20, 22, -20, 22)
               /\ call.result.val.nx = 260

\* the example call has returned a domain
C9_Witness == C9_Call /\ call.result.ok

\* C10: BoundingBox.update is idempotent, commutative and associative.
C10_UpdateLaws ==
    call.op = "BoundingBox.update"
    => /\ call.aa = call.a
       /\ call.ab = call.ba
       /\ call.ab_c = call.a_bc

\* three different boxes, none of the first two inside the other
C10_Witness ==
    /\ call.op = "BoundingBox.update"
    /\ call.a # call.b /\ call.b # call.c /\ call.a # call.c
    /\ call.ab \notin {call.a, call.b}
    /\ call.ab_c # call.ab

-----------------------------------------------------------------------------
(* The boundary layer.                                                     *)

\* C11: when nu, rho, the characteristic length or the inlet speed is zero
\* or negative, calc_boundary_layer raises and returns no BoundaryLayer.
C11_NonPositiveRejected ==
    (/\ call.op = "calc_boundary_layer"
     /\ \/ Leq(call.nu, Zero)
        \/ Leq(call.rho, Zero)
        \/ Leq(max_length(call.stl_bbox), Zero)
        \/ Leq(call.U_val, Zero))
    => ~call.result.ok

\* C12: a BoundaryLayer returned for positive nu, rho, U, L and target cell
\* size (the expansion ratio is above 1) has its first layer thinner than
\* its final layer.
C12_FirstBelowFinal ==
    (/\ call.op = "calc_boundary_layer"
     /\ Less(Zero, call.nu)
     /\ Less(Zero, call.rho)
     /\ Less(Zero, max_length(call.stl_bbox))
     /\ Less(Zero, call.U_val)
     /\ Less(Zero, call.target_cell_size)
     /\ Less(Num(1), call.expansionRatio)
     /\ call.result.ok)
    => Less(call.result.val.first_layer_thickness, call.result.val.final_layer_thickness)


\* C13: when the accumulated thickness of calc_layers has not exceeded
\* delta at the end of its steps, the call raises: it returns no layer count.
C13_ExhaustedSearchRejected ==
    (/\ call.op = "calc_layers"
     /\ call.at = "done"
     /\ ~Less(call.delta, call.currentDelta))
    => ~call.result.ok

\* C14: for a first layer of thickness 2 * yFirst, an expansion ratio above
\* 1 and the target depth delta, the layer count of the closed form and the
\* step N returned by calc_layers differ by at most 1.
C14_CountsAgree ==
    (/\ call.op = "calc_layers"
     /\ call.at = "done"
     /\ Less(Zero, call.yFirst)
     /\ Less(Num(1), call.expRatio)
     /\ call.result.ok)
    => Abs(closed_form_layers(Mul(call.yFirst, Num(2)), call.delta, call.expRatio)
           - call.result.val[1]) <= 1

\* the quantities of the formula, for the arguments of the call
C15_Re == Quot(Mul(call.U_val, call.L), call.nu)

C15_Cf == Quot(Rat(592, 10000), Root5(C15_Re))

C15_Tau == Mul(Mul(Mul(Rat(1, 2), call.rho), C15_Cf), Mul(call.U_val, call.U_val))

C15_UStar == Sqrt(Quot(C15_Tau, call.rho))

\* C15: for positive arguments calc_y returns targetYPlus * nu / u*, with
\* Re = U * L / nu, Cf = 0.0592 * Re^(-1/5), tau = 0.5 * rho * Cf * U^2 and
\* u* = sqrt(tau / rho); for nu = 1e-6, rho = 1000, L = 1, U = 1 and
\* targetYPlus = 200 the result is 4.63e-3 to three significant digits.
C15_CalcY ==
    (/\ call.op = "calc_y"
     /\ Less(Zero, call.nu)
     /\ Less(Zero, call.L))
    => /\ call.result.ok
       /\ call.result.val = Quot(Mul(Num(call.target_yPlus), call.nu), C15_UStar)
       /\ (/\ call.nu = Rat(1, 1000000)
           /\ call.rho = Num(1000)
           /\ call.L = Num(1)
           /\ call.U_val = Num(1)
           /\ call.target_yPlus = 200)
          => /\ Leq(Rat(4625, 1000000), call.result.val)
             /\ Less(call.result.val, Rat(4635, 1000000))

\* the example has been computed
C15_Witness ==
    /\ call.op = "calc_y"
    /\ call.nu = Rat(1, 1000000)
    /\ call.rho = Num(1000)
    /\ call.L = Num(1)
    /\ call.U_val = Num(1)
    /\ call.target_yPlus = 200
    /\ call.result.ok


-----------------------------------------------------------------------------
(* The faces of the domain.                                                *)

\* factor = (largest extent of the surface box) * sizeFactor
C16_Factor == Mul(max_length(call.stl_bbox), call.size_factor)

\* C16: for external flow with onGround and halfModel false, calc_domain_bbox
\* returns the surface box with minx lowered by 3*factor, maxx raised by
\* 9*factor, miny and minz lowered by 2*factor and maxy and maxz raised by
\* 2*factor, where factor = (largest extent of the surface box) * sizeFactor.
C16_ExternalOffsets ==
    (/\ call.op = "calc_domain_bbox"
     /\ ~call.internal_flow
     /\ ~call.on_ground
     /\ ~call.is_half_model)
    => call.result =
          BoundingBox(Sub(call.stl_bbox.minx, Mul(Num(3), C16_Factor)),
                      Add(call.stl_bbox.maxx, Mul(Num(9), C16_Factor)),
                      Sub(call.stl_bbox.miny, Mul(Num(2), C16_Factor)),
                      Add(call.stl_bbox.maxy, Mul(Num(2), C16_Factor)),
                      Sub(call.stl_bbox.minz, Mul(Num(2), C16_Factor)),
                      Add(call.stl_bbox.maxz, Mul(Num(2), C16_Factor)))

\* an external full model off the ground around a box of positive extent
C16_Witness ==
    /\ call.op = "calc_domain_bbox"
    /\ ~call.internal_flow
    /\ ~call.on_ground
    /\ ~call.is_half_model
    /\ Less(Zero, C16_Factor)
    /\ call.stl_bbox.minx # call.stl_bbox.maxx
    /\ call.size_factor # Num(1)

\* the same call with halfModel not set
C18_Full == calc_domain_bbox(call.stl_bbox, call.size_factor, call.on_ground, call.internal_flow, FALSE)

\* what the expansion adds to maxy
C18_Raise == IF call.internal_flow THEN Mul(Rat(1, 10), call.size_factor) ELSE Mul(Num(2), Mul(max_length(call.stl_bbox), call.size_factor))

\* C18: when halfModel is set, calc_domain_bbox replaces the domain's maxy by
\* the midpoint (miny + maxy)/2 of the already expanded domain and changes no
\* other bound; when halfModel is not set, maxy is left as expanded.
C18_HalfModelMidpoint ==
    call.op = "calc_domain_bbox"
    => IF call.is_half_model
       THEN call.result =
               [C18_Full EXCEPT
                   !.maxy = Quot(Add(C18_Full.miny, C18_Full.maxy), Num(2))]
       ELSE call.result.maxy = Add(call.stl_bbox.maxy, C18_Raise)

\* a half model whose expanded domain is not centred on y = 0
C18_Witness ==
    /\ call.op = "calc_domain_bbox"
    /\ call.is_half_model
    /\ ~IsZero(Add(C18_Full.miny, C18_Full.maxy))
    /\ Less(call.result.maxy, C18_Full.maxy)


\* C17: when onGround is set, after a wall surface is added successfully the
\* floor of the stored domain is the surface's own minimum z and its top is
\* surface.maxz + 4 * factor, factor being the largest extent of the surface
\* (the domain size factor is 1): the domain does not extend below the body.
C17_GroundFloorStored ==
    (/\ last.op = "add_stl_to_settings"
     /\ last.type = "wall"
     /\ last.ok
     /\ onGround)
    => /\ domain.minz = last.bbox.minz
       /\ domain.maxz = Add(last.bbox.maxz, Mul(Num(4), max_length(last.bbox)))


-----------------------------------------------------------------------------
(* The background mesh.                                                    *)

\* the fraction of the table: max_length/50, /70, /90 for slender internal
\* flow, min_length/8, /12, /16 for other internal flow, min_length/3, /5, /7
\* for external flow
C19_Fraction(a, maxl, minl, internal_flow) ==
    IF internal_flow
    THEN IF Less(Mul(Num(10), minl), maxl)
         THEN Quot(maxl, Num(CASE a = "coarse" -> 50 [] a = "medium" -> 70 [] a = "fine" -> 90))
         ELSE Quot(minl, Num(CASE a = "coarse" -> 8 [] a = "medium" -> 12 [] a = "fine" -> 16))
    ELSE Quot(minl, Num(CASE a = "coarse" -> 3 [] a = "medium" -> 5 [] a = "fine" -> 7))

\* C19: calc_background_cell_size returns min(fraction, maxCellSize), where
\* for external flow fraction = min_length/3, /5, /7 for coarse, medium, fine
\* regardless of slenderness, and for internal flow fraction = max_length/50,
\* /70, /90 when max_length/min_length > 10 (strictly) and min_length/8, /12,
\* /16 otherwise (a ratio of exactly 10 included); the ratio is defined when
\* min_length > 0.
C19_CellSizeTable ==
    (/\ call.op = "calc_background_cell_size"
     /\ call.internal_flow => Less(Zero, min_length(call.stl_bbox)))
    => \A a \in RefinementAmounts :
          /\ call.result[a].ok
          /\ call.result[a].val =
                RMin(C19_Fraction(a, max_length(call.stl_bbox),
                                  min_length(call.stl_bbox), call.internal_flow),
                     call.max_cell_size)

\* internal flow in a box whose length ratio is exactly 10, the cap not reached
C19_Witness ==
    /\ call.op = "calc_background_cell_size"
    /\ call.internal_flow
    /\ Less(Zero, min_length(call.stl_bbox))
    /\ max_length(call.stl_bbox) = Mul(Num(10), min_length(call.stl_bbox))
    /\ \A a \in RefinementAmounts : Less(call.result[a].val, call.max_cell_size)


\* n is the smallest even integer with n >= extent / cellSize: zero or one
\* above the ceiling, and n * cellSize covers the extent
C20_SmallestEven(n, extent, cellSize) ==
    /\ n % 2 = 0
    /\ Leq(extent, Mul(Num(n), cellSize))
    /\ Less(Mul(Num(n - 2), cellSize), extent)
    /\ n - Ceil(Quot(extent, cellSize)) \in {0, 1}

\* C20: for every domain box and positive cell size, calc_nx_ny_nz returns
\* per axis the smallest even integer n with n >= (max - min)/cellSize, each
\* axis on its own: n * cellSize >= extent and n - ceil(extent/cellSize) is
\* 0 or 1.
C20_EvenCounts ==
    (call.op = "calc_nx_ny_nz" /\ Less(Zero, call.target_cell_size))
    => /\ call.result.ok
       /\ \A i \in 1..3 :
            C20_SmallestEven(call.result.val[i], size(call.domain_bbox)[i],
                             call.target_cell_size)

\* three different counts, one of them one above an odd ceiling
C20_Witness ==
    /\ call.op = "calc_nx_ny_nz"
    /\ call.result.ok
    /\ Cardinality({call.result.val[i] : i \in 1..3}) = 3
    /\ \E i \in 1..3 :
         call.result.val[i] =
            Ceil(Quot(size(call.domain_bbox)[i], call.target_cell_size)) + 1


-----------------------------------------------------------------------------
(* The refinement regions.                                                 *)

\* the surface box shifted by multiples of its own extents dx, dy, dz
C21_Shifted(b, x0, x1, y0, y1, z0, z1) ==
    BoundingBox(Add(b.minx, Mul(x0, size(b)[1])), Add(b.maxx, Mul(x1, size(b)[1])),
                Add(b.miny, Mul(y0, size(b)[2])), Add(b.maxy, Mul(y1, size(b)[2])),
                Add(b.minz, Mul(z0, size(b)[3])), Add(b.maxz, Mul(z1, size(b)[3])))

\* C21: the coarse refinement box is the surface box shifted by (-0.7*dx,
\* +15*dx, -1*dy, +1*dy, -1*dz, +1*dz) and the fine box by (-0.2*dx, +3*dx,
\* -0.45*dy, +0.45*dy, -0.45*dz, +0.45*dz), dx, dy, dz being the surface
\* box's own extents: checked on the boxes registered when a wall has been
\* added in external flow.
C21_BoxesScaleWithSurface ==
    (/\ last.op \in {"add_stl_to_settings", "update_settings"}
     /\ last.type = "wall"
     /\ last.ok
     /\ ~internalFlow)
    => /\ geometry["refinementBox"].bbox =
             C21_Shifted(last.bbox, Rat(-7, 10), Num(15), Num(-1), Num(1),
                         Num(-1), Num(1))
       /\ geometry["fineBox"].bbox =
             C21_Shifted(last.bbox, Rat(-2, 10), Num(3), Rat(-45, 100),
                         Rat(45, 100), Rat(-45, 100), Rat(45, 100))


\* refLevel by refinement amount, and the box level max(2, refLevel - 3)
C22_RefLevel == CASE refAmount = "coarse" -> 2 [] refAmount = "medium" -> 4 [] refAmount = "fine" -> 6

C22_BoxLevel == IF C22_RefLevel - 3 > 2 THEN C22_RefLevel - 3 ELSE 2

\* C22: when a wall has been added in external flow, the surface refinement
\* level refLevel is 2, 4, 6 for coarse, medium, fine, the fine box has the
\* level max(2, refLevel - 3) and the coarse box that level minus 1, so
\* every box level is at least 1 and at most refLevel.
C22_BoxLevels ==
    (/\ last.op = "add_stl_to_settings"
     /\ last.type = "wall"
     /\ last.ok
     /\ ~internalFlow)
    => /\ geometry[last.name].refineMax = C22_RefLevel
       /\ geometry["fineBox"].refineMax = C22_BoxLevel
       /\ geometry["refinementBox"].refineMax = C22_BoxLevel - 1
       /\ \A k \in DOMAIN geometry :
             geometry[k].class = "SearchableBoxGeometry"
             => /\ geometry[k].refineMax >= 1
                /\ geometry[k].refineMax <= C22_RefLevel

\* a wall added at the amount fine, the only one whose box level is above 2
C22_Witness ==
    /\ last.op = "add_stl_to_settings"
    /\ last.type = "wall"
    /\ last.ok
    /\ ~internalFlow
    /\ refAmount = "fine"
    /\ geometry["fineBox"].refineMax = 3
    /\ geometry["refinementBox"].refineMax = 2


\* the minimum z of the domain computed for the surface of the last call
C23_Floor == calc_domain_bbox(last.bbox, Num(1), onGround, internalFlow, halfModel).minz

\* a fifth of the z extent of the surface
C23_Delta == Mul(Rat(2, 10), Sub(last.bbox.maxz, last.bbox.minz))

-----------------------------------------------------------------------------
(* The layer count.                                                        *)

\* N is the largest integer with first * er^N <= final
C24_Largest(N, first, final, er) ==
    /\ Leq(Mul(first, Power(er, N)), final)
    /\ Less(final, Mul(first, Power(er, N + 1)))

\* C24: for expansionRatio > 1 and positive thicknesses the layer count N of
\* calc_boundary_layer is at least 1; whenever final >= first * expansionRatio
\* it is the largest integer with first * expansionRatio^N <= final, and
\* when final < first * expansionRatio, N = 1.  The count is checked on the
\* whole function, the largest-integer property on its last lines applied to
\* thicknesses whose powers stay within reach.
C24_LayerCount ==
    /\ (/\ call.op \in {"calc_boundary_layer", "num_layers"}
        /\ call.result.ok
        /\ Less(Num(1), call.expansionRatio)
        /\ Less(Zero, call.result.val.first_layer_thickness)
        /\ Less(Zero, call.result.val.final_layer_thickness))
       => /\ call.result.val.nLayers >= 1
          /\ Less(call.result.val.final_layer_thickness,
                  Mul(call.result.val.first_layer_thickness, call.expansionRatio))
             => call.result.val.nLayers = 1
    /\ (/\ call.op = "num_layers"
        /\ call.result.ok
        /\ Leq(Mul(call.first_layer_thickness, call.expansionRatio),
               call.final_layer_thickness))
       => C24_Largest(call.result.val.nLayers, call.first_layer_thickness,
                      call.final_layer_thickness, call.expansionRatio)

\* a count above 1 whose power meets the final thickness exactly
C24_Witness ==
    /\ call.op = "num_layers"
    /\ call.result.ok
    /\ call.result.val.nLayers >= 2
    /\ call.expansionRatio = Rat(7, 5)
    /\ Mul(call.first_layer_thickness,
           Power(call.expansionRatio, call.result.val.nLayers))
       = call.final_layer_thickness


-----------------------------------------------------------------------------
(* The registered surfaces.                                                *)

\* C25: when a wall has been added and the call has returned, every
\* TriSurfaceMesh geometry of the aggregate, the new wall included, has
\* refineMin = max(1, refLevel), refineMax = max(2, refLevel), featureLevel =
\* max(refLevel, 1) and the layer count computed for the wall.
C25_AllSurfacesStamped ==
    (/\ last.op = "add_stl_to_settings"
     /\ last.type = "wall"
     /\ last.ok)
    => \A k \in DOMAIN geometry :
          geometry[k].class = "TriSurfaceMeshGeometry"
          => /\ geometry[k].refineMin = IMax(1, C22_RefLevel)
             /\ geometry[k].refineMax = IMax(2, C22_RefLevel)
             /\ geometry[k].featureLevel = IMax(C22_RefLevel, 1)
             /\ geometry[k].nLayers = geometry[last.name].nLayers


\* the layer count of a surface that is not a wall: 2, 4, 6
C26_Layers == CASE refAmount = "coarse" -> 2 [] refAmount = "medium" -> 4 [] refAmount = "fine" -> 6

\* C26: adding a surface that is not a wall registers it with refineMin =
\* refineMax = 0 and nLayers = 2, 4, 6 for coarse, medium, fine, and leaves
\* the domain, maxCellSize, locationInMesh, the layer controls, the
\* refinement boxes and every geometry registered before under another name
\* unchanged.
C26_NonWallFrame ==
    [][(/\ last'.op \in {"add_stl_to_settings", "update_settings"}
        /\ last'.type # "wall"
        /\ last'.ok)
       => /\ geometry'[last'.name].refineMin = 0
          /\ geometry'[last'.name].refineMax = 0
          /\ geometry'[last'.name].nLayers = C26_Layers
          /\ domain' = domain
          /\ maxCellSize' = maxCellSize
          /\ locationInMesh' = locationInMesh
          /\ addLayersControls' = addLayersControls
          /\ DOMAIN geometry' = DOMAIN geometry \cup {last'.name}
          /\ \A k \in DOMAIN geometry \ {last'.name} : geometry'[k] = geometry[k]]_vars


-----------------------------------------------------------------------------
(* The inlet speed.                                                        *)

\* the square of the magnitude of a vector
C27_NormSquared(u) == Add(Add(Mul(u[1], u[1]), Mul(u[2], u[2])), Mul(u[3], u[3]))

\* C27: the velocity U fed into the boundary-layer computation is the
\* magnitude of the inlet velocity vector (U >= 0 and U * U = u . u, so that
\* u and -u give the same U and (3, 4, 0) gives 5), and the target y+ is 70,
\* 50, 30 for coarse, medium, fine.
C27_SpeedIsMagnitude ==
    /\ call.op = "u_max"
       => /\ Leq(Zero, call.result)
          /\ Mul(call.result, call.result) = C27_NormSquared(call.u_value)
    /\ (call.op = "calc_boundary_layer" /\ call.result.ok)
       => call.result.val.yPlus =
             CASE call.refAmount = "coarse" -> 70 [] call.refAmount = "medium" -> 50 [] call.refAmount = "fine" -> 30


-----------------------------------------------------------------------------
(* The growth of the domain.                                               *)

\* box a contains box b on all six faces
C28_Contains(a, b) ==
    /\ Leq(a.minx, b.minx) /\ Leq(b.maxx, a.maxx)
    /\ Leq(a.miny, b.miny) /\ Leq(b.maxy, a.maxy)
    /\ Leq(a.minz, b.minz) /\ Leq(b.maxz, a.maxz)

\* the domain computed for the wall of the step
C28_Computed == calc_domain(last'.bbox, refAmount, onGround, internalFlow, halfModel, Num(2), Num(1)).val

\* C28: over any sequence of wall additions and change_domain_size calls the
\* domain never shrinks: after each such operation the new domain contains
\* the previous domain box and the requested or computed box on all six
\* faces, and nx, ny, nz are not smaller than before; a request for a
\* smaller domain leaves the bounds unchanged.
C28_DomainNeverShrinks ==
    [][(\/ last'.op = "change_domain_size"
        \/ last'.op = "add_stl_to_settings" /\ last'.type = "wall")
       => /\ C28_Contains(domain', domain)
          /\ domain'.nx >= domain.nx
          /\ domain'.ny >= domain.ny
          /\ domain'.nz >= domain.nz
          /\ last'.op = "change_domain_size"
             => /\ C28_Contains(domain', last'.bounds)
                /\ C28_Contains(domain, last'.bounds) => bbox(domain') = bbox(domain)
          /\ (last'.op = "add_stl_to_settings" /\ last'.ok)
             => C28_Contains(domain', C28_Computed)]_vars

\* a smaller domain has been asked for after a wall had widened the domain
C28_Witness ==
    /\ last.op = "change_domain_size"
    /\ C28_Contains(domain, last.bounds)
    /\ bbox(domain) # last.bounds
    /\ WallSurfaces(geometry) # {}
    /\ bbox(domain) # bbox(DefaultDomain)


-----------------------------------------------------------------------------
(* The order of the additions.                                             *)

\* the entry surface k gets when it is added after everything registered now
C29_AddedLast(k) == add_stl_to_settings(TheMesh, refAmount, onGround, halfModel, internalFlow, fluid.nu, fluid.rho, u_value, k, geometry[k].bounds, geometry[k].type, geometry[k].property, "found").mesh.geometry[k]

\* the four values of an entry
C29_Values(g) == <<g.refineMin, g.refineMax, g.featureLevel, g.nLayers>>

\* C29: for one wall and any number of other surfaces, every surface has the
\* same refineMin, refineMax, featureLevel and nLayers whatever the order of
\* the additions: once the wall and another surface are registered, the
\* other surface has the values it gets when it is added after the wall.
C29_OrderIrrelevant ==
    (/\ last.op = "add_stl_to_settings"
     /\ last.ok
     /\ WallSurfaces(geometry) # {})
    => \A k \in DOMAIN geometry :
          (geometry[k].class = "TriSurfaceMeshGeometry" /\ geometry[k].type # "wall")
          => C29_Values(geometry[k]) = C29_Values(C29_AddedLast(k))


-----------------------------------------------------------------------------
(* The location in the mesh.                                               *)

\* point p lies in the closed box b
C30_Inside(p, b) ==
    /\ Leq(b.minx, p[1]) /\ Leq(p[1], b.maxx)
    /\ Leq(b.miny, p[2]) /\ Leq(p[2], b.maxy)
    /\ Leq(b.minz, p[3]) /\ Leq(p[3], b.maxz)

\* C30: for external flow the point of locationInMesh (x = maxx + 0.05*dx,
\* y = 0.95*miny, z = (maxz - minz)/2 of the surface box) lies strictly
\* outside the surface bounding box and inside the domain box computed for
\* the surface, for every position of the surface box and every setting of
\* onGround and halfModel.
C30_LocationOutsideBodyInsideDomain ==
    (/\ call.op = "get_location_in_mesh"
     /\ ~call.is_internal_flow
     /\ call.result.ok)
    => /\ ~C30_Inside(call.result.val, call.stl_bbox)
       /\ \A on_ground \in BOOLEAN, is_half_model \in BOOLEAN :
             C30_Inside(call.result.val,
                        calc_domain_bbox(call.stl_bbox, Num(1), on_ground, FALSE,
                                         is_half_model))


====
